---- MODULE Spec2Model ----
(***************************************************************************)
(* A model of the Shopify metaobject loader:                               *)
(*   - the transport (_make_request / make_graphql_request under the       *)
(*     tenacity @retry decorator),                                         *)
(*   - the upsert orchestrator (_upsert_metaobject,                        *)
(*     batch_upsert_metaobjects),                                          *)
(*   - the pagination walker (fetch_metaobjects, fetch_all_metaobjects),   *)
(*   - the validator (validate_metaobject_definition and its helpers),     *)
(*   - the record model (Metaobject of either class),                      *)
(*   - the tabular loader (process_csv),                                   *)
(*   - the schema descriptor (fetch_metaobject_definition,                 *)
(*     describe_metaobject_type),                                          *)
(*   - the projections (fetch_metaobjects_as_dict, get_metaobject_stats),  *)
(*   - the cache (_get_from_cache, _save_to_cache).                        *)
(* Each component has its own specification over the shared variables.     *)
(***************************************************************************)
EXTENDS Integers, Sequences, FiniteSets, TLC

VARIABLES
    \* transport: one call of _make_request / make_graphql_request
    impl,            \* "loader" (_make_request) or "api" (make_graphql_request)
    tpc,             \* "idle", "attempting", "sleeping", "returned", "raised"
    attempt_number,  \* tenacity's retry_state.attempt_number
    tlog,            \* the attempts made: <<[resp, outcome], ...>>
    waits,           \* the sleeps tenacity made between the attempts
    tresult,         \* what the caller of the decorated function receives
    \* upsert orchestrator: one call of batch_upsert_metaobjects
    bpc,             \* "idle", "loop", "upserting", "returned", "raised"
    metaobjects,     \* the input list
    batch_size,
    batch_start,     \* i of `for i in range(0, len(metaobjects), batch_size)`
    batch_index,     \* position of the current record within the batch
    stats,           \* [upserted, failed]
    attempted,       \* handles whose upsert reached the transport, in order
    outcomes,        \* per attempted record, what _upsert_metaobject did
    bresult,         \* what the caller of batch_upsert_metaobjects receives
    \* pagination walker: one call of fetch_all_metaobjects
    fpc,             \* "idle", "loop", "returned", "raised"
    all_metaobjects,
    has_next_page,
    cursor,
    requests_sent,   \* the `after` cursor of every page request, in order
    responses,       \* what requests.post gave every page request, in order
    pages,           \* what fetch_metaobjects returned for every request
    fresult,
    \* validator: one call of validate_metaobject_definition
    vpc,             \* "idle", "done"
    v_fields,        \* metaobject.fields of the validated record
    v_definition,    \* definition["fields"]
    v_errors,        \* `errors` when the field-type loop has ended
    vresult,
    \* record model: one Metaobject instance and the calls made on it
    rpc,             \* "idle", "local", "hydrated", "failed", "set",
                     \* "roundtrip", "upserted"
    mcls,            \* the Metaobject class: "loader" or "package"
    record,          \* the instance: type, handle, id, fields, metafields
    round_trips,     \* the instance before each round trip made so far
    payload,         \* the data given to from_shopify_data
    hresult,         \* what from_shopify_data did with it
    before,          \* the instance before the last set_metafield
    sets,            \* the arguments of the set_metafield calls so far
    calls,           \* the transport calls _upsert_metaobject made
    uresult,         \* what _upsert_metaobject did
    \* tabular loader: one call of process_csv
    cpc,             \* "idle", "loop", "upserting", "returned", "raised"
    csv,             \* the source: what read_csv does, its columns and rows
    row_index,       \* the rows df.iterrows() has yielded so far
    cstats,          \* [upserted, failed]
    built,           \* the Metaobject built for every row reached, in order
    coutcomes,       \* per built record, what _upsert_metaobject did
    cresult,         \* what the caller of process_csv receives
    \* schema descriptor: one call of describe_metaobject_type
    dpc,             \* "idle", "listing", "defining", "returned", "raised"
    metaobject_type, \* the requested type name
    d_requests,      \* the read requests issued so far, in order
    d_listing,       \* the response to the list request
    d_definition,    \* the response to the definition request
    dresult,         \* what the caller of describe_metaobject_type receives
    \* projections: one call of fetch_metaobjects_as_dict or
    \* get_metaobject_stats, its fetch_all_metaobjects call included
    ppc,             \* "idle", "fetching", "returned", "raised"
    p_op,            \* "as_dict" or "stats"
    key_field,       \* the key_field argument of fetch_metaobjects_as_dict
    presult,         \* what the caller receives
    \* cache: the files under cache_dir and the calls made on them
    now,             \* datetime.now()
    cache_dir,       \* self.cache_dir: None or a directory
    files,           \* the text of the file of every key, << >> if none
    writes,          \* the last _save_to_cache call of every key
    cget             \* the last _get_from_cache call: its key, its instant,
                     \* the last write of the key before it, its result

tvars == <<impl, tpc, attempt_number, tlog, waits, tresult>>
bvars == <<bpc, metaobjects, batch_size, batch_start, batch_index, stats, 
          attempted, outcomes, bresult>>
fvars == <<fpc, all_metaobjects, has_next_page, cursor, requests_sent,
          responses, pages, fresult>>
vvars == <<vpc, v_fields, v_definition, v_errors, vresult>>
rvars == <<rpc, mcls, record, round_trips, payload, hresult, before, sets,
          calls, uresult>>
cvars == <<cpc, csv, row_index, cstats, built, coutcomes, cresult>>
dvars == <<dpc, metaobject_type, d_requests, d_listing, d_definition, dresult>>
pvars == <<ppc, p_op, key_field, presult>>
kvars == <<now, cache_dir, files, writes, cget>>
vars == <<tvars, bvars, fvars, vvars, rvars, cvars, dvars, pvars, kvars>>

----------------------------------------------------------------------------
(* Python values shared by the components *)

None == "None"

\* The exception classes of the program and of its libraries, by base class.
ExceptionBase(cls) ==
    CASE cls = "ShopifyRateLimitError" -> "ShopifyAPIError"
      [] cls = "ShopifyUserError"      -> "ShopifyAPIError"
      [] cls = "ShopifyAPIError"       -> "Exception"
      [] cls = "HTTPError"             -> "RequestException"
      [] cls = "ConnectionError"       -> "RequestException"
      [] cls = "RequestException"      -> "Exception"
      [] OTHER                         -> "Exception"

\* isinstance(e, cls) for an exception whose class is e
RECURSIVE IsInstance(_, _)
IsInstance(e, cls) ==
    IF e = cls THEN TRUE
    ELSE IF e = "Exception" THEN FALSE
    ELSE IsInstance(ExceptionBase(e), cls)

\* What a call does: it returns a value or raises an exception. `cause` is the
\* exception a RetryError wraps (its last_attempt).
Return(d) == [kind |-> "return", err |-> None, cause |-> None, data |-> d]
Raise(e) == [kind |-> "raise", err |-> e, cause |-> None, data |-> None]
RaiseFrom(e, c) == [kind |-> "raise", err |-> e, cause |-> c, data |-> None]

----------------------------------------------------------------------------
(* Transport *)

\* The `data` member of a response body, as far as the program reads it:
\* data.metaobjectUpsert.userErrors and data.metaobjectUpsert.metaobject.
\* metaobject "plain" has no metafield edges, "with_metafields" has some.
Payloads ==
    { [userErrors |-> "absent",   metaobject |-> "absent"],
      [userErrors |-> "empty",    metaobject |-> "plain"],
      [userErrors |-> "empty",    metaobject |-> "with_metafields"],
      [userErrors |-> "empty",    metaobject |-> "null"],
      [userErrors |-> "nonempty", metaobject |-> "null"] }

EmptyPayload == [userErrors |-> "absent", metaobject |-> "absent"]

\* What requests.post can give one attempt: no response at all (net = "fail":
\* connection error, timeout), or a response with a status and a JSON body.
\* errors is the body's top-level "errors" member.
Responses ==
    { [net |-> "fail", status |-> 0, errors |-> "absent", data |-> EmptyPayload] }
    \cup { [net |-> "ok", status |-> s, errors |-> "absent", data |-> EmptyPayload] :
             s \in {401, 403, 429, 500} }
    \cup { [net |-> "ok", status |-> 200, errors |-> "absent", data |-> d] :
             d \in Payloads }
    \cup { [net |-> "ok", status |-> 200, errors |-> e, data |-> EmptyPayload] :
             e \in {"empty", "nonempty"} }

\* response.raise_for_status(): HTTPError for a 4xx or 5xx status
raise_for_status(r) == r.status >= 400 /\ r.status < 600

\* One execution of the body of _make_request.
_make_request(r) ==
    IF r.net = "fail" THEN Raise("ConnectionError")
    ELSE IF raise_for_status(r) THEN Raise("HTTPError")
    ELSE IF r.status = 429 THEN Raise("ShopifyRateLimitError")
    ELSE IF r.errors # "absent" THEN Raise("ShopifyAPIError")
    ELSE IF r.data.userErrors = "nonempty" THEN Raise("ShopifyUserError")
    ELSE Return(r.data)

\* One execution of the body of make_graphql_request (no userErrors check).
make_graphql_request(r) ==
    IF r.net = "fail" THEN Raise("ConnectionError")
    ELSE IF raise_for_status(r) THEN Raise("HTTPError")
    ELSE IF r.status = 429 THEN Raise("ShopifyRateLimitError")
    ELSE IF r.errors # "absent" THEN Raise("ShopifyAPIError")
    ELSE Return(r.data)

Body(i, r) == IF i = "loader" THEN _make_request(r) ELSE make_graphql_request(r)

\* stop=stop_after_attempt(3)
MaxAttempts == 3
stop_after_attempt_off_by_one(n) == n >= MaxAttempts + 1
stop_after_attempt(n) == n >= MaxAttempts

\* retry=retry_if_exception_type((ShopifyRateLimitError, requests.RequestException))
retry_if_any_api_error(e) ==
    IsInstance(e, "ShopifyAPIError") \/ IsInstance(e, "RequestException")
retry_if_exception_type(e) ==
    IsInstance(e, "ShopifyRateLimitError") \/ IsInstance(e, "RequestException")

\* wait=wait_exponential(multiplier=1, min=4, max=10), after attempt n
WaitMultiplier == 1
WaitMin == 4
WaitMax == 10
Max2(a, b) == IF a >= b THEN a ELSE b
Min2(a, b) == IF a <= b THEN a ELSE b
wait_exponential_without_min(n) ==
    Min2(WaitMultiplier * (2 ^ (n - 1)), WaitMax)
wait_exponential(n) ==
    Max2(Max2(0, WaitMin), Min2(WaitMultiplier * (2 ^ (n - 1)), WaitMax))

\* What tenacity does with the outcome o of attempt number n: hand the value or
\* the exception to the caller, give up with RetryError (reraise is not set),
\* or sleep and try again.
AfterAttempt(n, o) ==
    IF o.kind = "return" THEN [pc |-> "returned", result |-> o]
    ELSE IF ~retry_if_exception_type(o.err) THEN [pc |-> "raised", result |-> o]
    ELSE IF stop_after_attempt(n) THEN
        [pc |-> "raised", result |-> RaiseFrom("RetryError", o.err)]
    ELSE [pc |-> "sleeping", result |-> None]

TransportInit ==
    /\ impl = "loader"
    /\ tpc = "idle"
    /\ attempt_number = 0
    /\ tlog = << >>
    /\ waits = << >>
    /\ tresult = None

\* The decorated function is called.
TransportCall(i) ==
    /\ tpc = "idle"
    /\ impl' = i
    /\ tpc' = "attempting"
    /\ attempt_number' = 0
    /\ tlog' = << >>
    /\ waits' = << >>
    /\ tresult' = None

\* One attempt: the body runs against the server's response, then tenacity
\* decides.
Attempt ==
    /\ tpc = "attempting"
    /\ \E r \in Responses :
         LET o == Body(impl, r)
             n == attempt_number + 1
             d == AfterAttempt(n, o)
         IN /\ attempt_number' = n
            /\ tlog' = Append(tlog, [resp |-> r, outcome |-> o])
            /\ tpc' = d.pc
            /\ tresult' = d.result
            /\ waits' = IF d.pc = "sleeping"
                        THEN Append(waits, wait_exponential(n))
                        ELSE waits
    /\ impl' = impl

\* The sleep between two attempts is over.
WakeUp ==
    /\ tpc = "sleeping"
    /\ tpc' = "attempting"
    /\ UNCHANGED <<impl, attempt_number, tlog, waits, tresult>>

----------------------------------------------------------------------------
(* Upsert orchestrator *)

MaxRecords == 3
MaxBatchSize == 2

\* The i-th input record; its handle stands for the whole record here.
Record(i) == [type |-> "region", handle |-> i]

\* Metaobject.from_shopify_data of the loader module on the mutation's
\* metaobject: it indexes every metafield edge by edge["key"], and an edge as
\* the mutation selects it is {"node": {...}}, which has no "key".
from_shopify_data(mo) ==
    IF mo = "with_metafields" THEN Raise("KeyError") ELSE Return("Metaobject")

\* _upsert_metaobject, given what its single _make_request call did. The
\* except clause logs and re-raises; other exceptions pass through it.
_upsert_metaobject(t) ==
    IF t.kind = "raise" THEN t
    ELSE IF t.data.metaobject \in {"absent", "null"} THEN Return(None)
    ELSE from_shopify_data(t.data.metaobject)

\* batch = metaobjects[i:i + batch_size]
Batch(ms, i, size) ==
    SubSeq(ms, i + 1, Min2(i + size, Len(ms)))

\* The try statement of batch_upsert_metaobjects around one record, given the
\* outcome o of _upsert_metaobject: the tally after it, or the exception that
\* leaves the method.
count_failure_as_upserted(st, o) ==
    IF o.kind = "return" \/ IsInstance(o.err, "ShopifyAPIError")
    THEN [raised |-> FALSE, stats |-> [st EXCEPT !.upserted = @ + 1]]
    ELSE [raised |-> TRUE, stats |-> st]
TallyRecord(st, o) ==
    IF o.kind = "return" THEN
        IF o.data # None
        THEN [raised |-> FALSE, stats |-> [st EXCEPT !.upserted = @ + 1]]
        ELSE [raised |-> FALSE, stats |-> [st EXCEPT !.failed = @ + 1]]
    ELSE IF IsInstance(o.err, "ShopifyAPIError")
    THEN [raised |-> FALSE, stats |-> [st EXCEPT !.failed = @ + 1]]
    ELSE [raised |-> TRUE, stats |-> st]

BatchInit ==
    /\ bpc = "idle"
    /\ metaobjects = << >>
    /\ batch_size = 1
    /\ batch_start = 0
    /\ batch_index = 0
    /\ stats = [upserted |-> 0, failed |-> 0]
    /\ attempted = << >>
    /\ outcomes = << >>
    /\ bresult = None

\* batch_upsert_metaobjects(metaobjects, batch_size) is called.
BatchCall(k, size) ==
    /\ bpc = "idle"
    /\ metaobjects' = [i \in 1..k |-> Record(i)]
    /\ batch_size' = size
    /\ bpc' = "loop"
    /\ UNCHANGED <<batch_start, batch_index, stats, attempted, outcomes, bresult>>

\* The loops reach a record: _upsert_metaobject builds its variables and calls
\* _make_request.
UpsertBegin ==
    /\ bpc = "loop"
    /\ batch_start < Len(metaobjects)
    /\ tpc = "idle"
    /\ LET batch == Batch(metaobjects, batch_start, batch_size)
       IN attempted' = Append(attempted, batch[batch_index + 1].handle)
    /\ bpc' = "upserting"
    /\ TransportCall("loader")
    /\ UNCHANGED <<metaobjects, batch_size, batch_start, batch_index, stats,
                   outcomes, bresult>>

\* _make_request is over (its frame is gone): _upsert_metaobject finishes, the
\* record is tallied and the loops advance, unless the exception leaves the
\* method.
UpsertEnd ==
    /\ bpc = "upserting"
    /\ tpc \in {"returned", "raised"}
    /\ LET o == _upsert_metaobject(tresult)
           t == TallyRecord(stats, o)
           batch == Batch(metaobjects, batch_start, batch_size)
           last == batch_index + 1 >= Len(batch)
       IN /\ outcomes' = Append(outcomes, o)
          /\ stats' = t.stats
          /\ IF t.raised
             THEN /\ bpc' = "raised"
                  /\ bresult' = o
                  /\ UNCHANGED <<batch_start, batch_index>>
             ELSE /\ bpc' = "loop"
                  /\ bresult' = bresult
                  /\ batch_start' = IF last THEN batch_start + batch_size
                                    ELSE batch_start
                  /\ batch_index' = IF last THEN 0 ELSE batch_index + 1
    /\ tpc' = "idle"
    /\ attempt_number' = 0
    /\ tlog' = << >>
    /\ waits' = << >>
    /\ tresult' = None
    /\ UNCHANGED <<impl, metaobjects, batch_size, attempted>>

\* range(0, len(metaobjects), batch_size) is exhausted: return stats.
BatchReturn ==
    /\ bpc = "loop"
    /\ batch_start >= Len(metaobjects)
    /\ bpc' = "returned"
    /\ bresult' = Return(stats)
    /\ UNCHANGED <<metaobjects, batch_size, batch_start, batch_index, stats,
                   attempted, outcomes>>

----------------------------------------------------------------------------
(* Pagination walker *)

MaxPages == 3

\* The edge lists a page may carry; a node is an integer here. Pages may
\* repeat nodes, within a page and across pages.
EdgeLists ==
    { << >>,
      <<[node |-> 1]>>,
      <<[node |-> 2], [node |-> 1]>>,
      <<[node |-> 3], [node |-> 3]>> }

Cursors == {"c1", "c2"}

\* What requests.post can give fetch_metaobjects. endCursor None stands for a
\* null or absent endCursor, "" for an empty one.
PageResponses ==
    { [net |-> "fail", status |-> 0, errors |-> FALSE, edges |-> << >>,
       hasNextPage |-> FALSE, endCursor |-> None] }
    \cup { [net |-> "ok", status |-> s, errors |-> FALSE, edges |-> << >>,
            hasNextPage |-> FALSE, endCursor |-> None] : s \in {429, 500} }
    \cup { [net |-> "ok", status |-> 200, errors |-> TRUE, edges |-> << >>,
            hasNextPage |-> FALSE, endCursor |-> None] }
    \cup { [net |-> "ok", status |-> 200, errors |-> FALSE, edges |-> e,
            hasNextPage |-> h, endCursor |-> c] :
             e \in EdgeLists, h \in BOOLEAN, c \in Cursors \cup {None, ""} }

\* fetch_metaobjects on the response r: the result dictionary as
\* fetch_all_metaobjects reads it, that is result.get("edges", []),
\* pageInfo.get("hasNextPage", False) and pageInfo.get("endCursor"). The
\* dictionary returned for a GraphQL errors response has no "edges" and
\* hasNextPage False. The request is made with requests.post directly, not
\* through _make_request.
fetch_metaobjects_raising_on_errors(r) ==
    IF r.net = "fail" THEN Raise("ConnectionError")
    ELSE IF raise_for_status(r) THEN Raise("HTTPError")
    ELSE IF r.errors THEN Raise("ShopifyAPIError")
    ELSE Return([edges |-> r.edges, hasNextPage |-> r.hasNextPage,
                 endCursor |-> r.endCursor])
fetch_metaobjects(r) ==
    IF r.net = "fail" THEN Raise("ConnectionError")
    ELSE IF raise_for_status(r) THEN Raise("HTTPError")
    ELSE IF r.errors
    THEN Return([edges |-> << >>, hasNextPage |-> FALSE, endCursor |-> None])
    ELSE Return([edges |-> r.edges, hasNextPage |-> r.hasNextPage,
                 endCursor |-> r.endCursor])

\* [edge["node"] for edge in result.get("edges", [])]
Nodes(edges) == [i \in 1..Len(edges) |-> edges[i].node]

\* all_metaobjects.extend(metaobjects)
extend_dedup(all, new) ==
    all \o SelectSeq(new, LAMBDA x : \A i \in 1..Len(all) : all[i] # x)
extend(all, new) == all \o new

\* `not cursor`
NotCursor(c) == c = None \/ c = ""

\* `if has_next_page and not cursor: break`
break_never(h, c) == FALSE
break_on_empty_text_only(h, c) == h /\ c = ""
CursorMissing(h, c) == h /\ NotCursor(c)

FetchInit ==
    /\ fpc = "idle"
    /\ all_metaobjects = << >>
    /\ has_next_page = TRUE
    /\ cursor = None
    /\ requests_sent = << >>
    /\ responses = << >>
    /\ pages = << >>
    /\ fresult = None

\* fetch_all_metaobjects is called.
FetchAllCall ==
    /\ fpc = "idle"
    /\ fpc' = "loop"
    /\ all_metaobjects' = << >>
    /\ has_next_page' = TRUE
    /\ cursor' = None
    /\ UNCHANGED <<requests_sent, responses, pages, fresult>>

\* The body of one iteration of `while has_next_page`, given the response r
\* to its page request: the page is merged and the pagination state is
\* updated; the method returns when the loop ends here, and the exception of
\* fetch_metaobjects leaves the method. `page` is what is logged of it.
Iteration(r) ==
    LET result == fetch_metaobjects(r)
    IN IF result.kind = "raise"
       THEN [fpc |-> "raised", fresult |-> result, page |-> << >>,
             all_metaobjects |-> all_metaobjects,
             has_next_page |-> has_next_page, cursor |-> cursor]
       ELSE LET page == result.data
                all == extend(all_metaobjects, Nodes(page.edges))
                over == CursorMissing(page.hasNextPage, page.endCursor)
                        \/ ~page.hasNextPage
            IN [fpc |-> IF over THEN "returned" ELSE "loop",
                fresult |-> IF over THEN Return(all) ELSE fresult,
                page |-> <<page>>,
                all_metaobjects |-> all,
                has_next_page |-> page.hasNextPage,
                cursor |-> page.endCursor]

\* One iteration of `while has_next_page`: request the page after `cursor`
\* and run the body on the response.
FetchPage ==
    /\ fpc = "loop"
    /\ has_next_page
    /\ Len(requests_sent) < MaxPages
    /\ requests_sent' = Append(requests_sent, cursor)
    /\ \E r \in PageResponses :
         LET it == Iteration(r)
         IN /\ responses' = Append(responses, r)
            /\ pages' = pages \o it.page
            /\ all_metaobjects' = it.all_metaobjects
            /\ has_next_page' = it.has_next_page
            /\ cursor' = it.cursor
            /\ fpc' = it.fpc
            /\ fresult' = it.fresult

MaxItems == 4

\* The same iteration for a walk of any length over a collection of at most
\* MaxItems items: the program's position and locals change as in FetchPage;
\* the records kept of the walk (the requests, responses and pages, and the
\* copy of the outcome in fresult) are left as they are. fpc tells whether
\* the method returned all_metaobjects or raised.
FetchPageUnlogged ==
    /\ fpc = "loop"
    /\ has_next_page
    /\ \E r \in PageResponses :
         LET it == Iteration(r)
         IN /\ Len(it.all_metaobjects) <= MaxItems
            /\ all_metaobjects' = it.all_metaobjects
            /\ has_next_page' = it.has_next_page
            /\ cursor' = it.cursor
            /\ fpc' = it.fpc
    /\ UNCHANGED <<requests_sent, responses, pages, fresult>>

----------------------------------------------------------------------------
(* Validator *)

MaxFields == 2

\* Python values of a record's fields. s is the text of a str, n the number of
\* an int, float or bool in tenths (True is 1).
StrV(x) == [type |-> "str", s |-> x, n |-> 0]
IntV(k) == [type |-> "int", s |-> "", n |-> 10 * k]
FloatV(tenths) == [type |-> "float", s |-> "", n |-> tenths]
BoolV(b) == [type |-> "bool", s |-> "", n |-> IF b THEN 10 ELSE 0]
DictV == [type |-> "dict", s |-> "", n |-> 0]
ListV == [type |-> "list", s |-> "", n |-> 0]

Values ==
    { StrV("US"), StrV("us"), StrV("5"), StrV("abc"),
      IntV(1), IntV(5), FloatV(15), BoolV(TRUE), DictV }

\* str(value)
PyStr(v) ==
    CASE v.type = "str" -> v.s
      [] v.type = "int" /\ v.n = 10 -> "1"
      [] v.type = "int" /\ v.n = 50 -> "5"
      [] v.type = "float" /\ v.n = 15 -> "1.5"
      [] v.type = "bool" -> IF v.n = 10 THEN "True" ELSE "False"
      [] v.type = "dict" -> "{}"
      [] v.type = "list" -> "[]"

\* float(text), in tenths, for the texts of the model; other texts are not
\* numbers and float raises ValueError.
ParseFloat(x) ==
    CASE x = "1" -> Return(10)
      [] x = "3" -> Return(30)
      [] x = "5" -> Return(50)
      [] x = "1.5" -> Return(15)
      [] OTHER -> Raise("ValueError")

\* float(value)
PyFloat(v) ==
    CASE v.type = "str" -> ParseFloat(v.s)
      [] v.type \in {"int", "float", "bool"} -> Return(v.n)
      [] OTHER -> Raise("TypeError")

\* bool(re.match(pattern, text)) for the patterns and texts of the model.
\* "^[A-Z]{2}$": exactly two capital letters; "[A-Z]": re.match anchors at the
\* start only, so the text must begin with a capital letter.
ReMatch(pattern, text) ==
    CASE pattern = "^[A-Z]{2}$" -> text \in {"US"}
      [] pattern = "[A-Z]" -> text \in {"US", "True"}
      [] OTHER -> FALSE

\* rule_value.split(",") for the rule values of the model
Split(x) ==
    CASE x = "US,CA" -> {"US", "CA"}
      [] x = "1,5" -> {"1", "5"}
      [] OTHER -> {x}

\* type_map.get(expected_type) as the set of type(value).__name__ that
\* isinstance accepts (bool is a subclass of int); {} stands for no entry.
type_map_integer_accepts_float(expected_type) ==
    CASE expected_type \in {"single_line_text_field", "multi_line_text_field",
                            "date", "date_time", "color"} -> {"str"}
      [] expected_type \in {"number_integer", "number_decimal", "rating",
                            "dimension", "volume", "weight"} ->
             {"int", "bool", "float"}
      [] expected_type = "boolean" -> {"bool"}
      [] expected_type = "json" -> {"dict", "list"}
      [] OTHER -> {}
type_map(expected_type) ==
    CASE expected_type \in {"single_line_text_field", "multi_line_text_field",
                            "date", "date_time", "color"} -> {"str"}
      [] expected_type = "number_integer" -> {"int", "bool"}
      [] expected_type \in {"number_decimal", "rating", "dimension", "volume",
                            "weight"} -> {"int", "bool", "float"}
      [] expected_type = "boolean" -> {"bool"}
      [] expected_type = "json" -> {"dict", "list"}
      [] OTHER -> {}

_validate_field_type(value, expected_type) ==
    LET expected == type_map(expected_type)
    IN IF expected = {} THEN TRUE ELSE value.type \in expected

\* _validate_field_value: Return(TRUE or FALSE), or the exception float raises
pattern_ignored(value, validation) ==
    IF validation.name = "pattern" THEN Return(TRUE)
    ELSE IF validation.name = "in"
    THEN Return(value.type = "str" /\ value.s \in Split(validation.value))
    ELSE Return(TRUE)
_validate_field_value(value, validation) ==
    LET name == validation.name
        rule_value == validation.value
    IN IF name \in {"min", "max"} THEN
           LET a == PyFloat(value)
               b == ParseFloat(rule_value)
           IN IF a.kind = "raise" THEN a
              ELSE IF b.kind = "raise" THEN b
              ELSE Return(IF name = "min" THEN a.data >= b.data
                          ELSE a.data <= b.data)
       ELSE IF name = "pattern" THEN Return(ReMatch(rule_value, PyStr(value)))
       ELSE IF name = "in"
       THEN Return(value.type = "str" /\ value.s \in Split(rule_value))
       ELSE Return(TRUE)

MissingMessage(key) == "Missing required field: " \o key
TypeMessage(key, expected_type, value) ==
    "Invalid type for field " \o key \o ": expected " \o expected_type
        \o ", got " \o value.type
ValidationMessage(key, validation) ==
    "Validation failed for field " \o key \o ": " \o validation.name
        \o " = " \o validation.value

\* The first loop: required fields. fields is metaobject.fields, a function
\* from its keys; defs is definition["fields"].
RECURSIVE RequiredLoop(_, _)
RequiredLoop(fields, defs) ==
    IF defs = << >> THEN << >>
    ELSE LET field == Head(defs)
         IN (IF field.required /\ field.key \notin DOMAIN fields
             THEN <<MissingMessage(field.key)>> ELSE << >>)
            \o RequiredLoop(fields, Tail(defs))

\* The second loop: field types.
RECURSIVE TypeLoop(_, _)
TypeLoop(fields, defs) ==
    IF defs = << >> THEN << >>
    ELSE LET field == Head(defs)
         IN (IF field.key \in DOMAIN fields
                /\ ~_validate_field_type(fields[field.key], field.type)
             THEN <<TypeMessage(field.key, field.type, fields[field.key])>>
             ELSE << >>)
            \o TypeLoop(fields, Tail(defs))

\* The inner loop of the third loop: the validations vs of one present field,
\* appending to errors; the exception of _validate_field_value ends it.
RECURSIVE FieldValidations(_, _, _, _)
FieldValidations(errors, key, value, vs) ==
    IF vs = << >> THEN Return(errors)
    ELSE LET ok == _validate_field_value(value, Head(vs))
         IN IF ok.kind = "raise" THEN ok
            ELSE FieldValidations(
                     IF ok.data THEN errors
                     ELSE Append(errors, ValidationMessage(key, Head(vs))),
                     key, value, Tail(vs))

\* The third loop: validations.
RECURSIVE ValidationLoop(_, _, _)
ValidationLoop(errors, fields, defs) ==
    IF defs = << >> THEN Return(errors)
    ELSE LET field == Head(defs)
             r == IF field.key \in DOMAIN fields
                  THEN FieldValidations(errors, field.key, fields[field.key],
                                        field.validations)
                  ELSE Return(errors)
         IN IF r.kind = "raise" THEN r
            ELSE ValidationLoop(r.data, fields, Tail(defs))

\* validate_metaobject_definition(metaobject, definition)
validate_metaobject_definition(fields, defs) ==
    ValidationLoop(RequiredLoop(fields, defs) \o TypeLoop(fields, defs),
                   fields, defs)

\* The descriptors and records the validator is checked on.
Keys == {"code", "qty"}
Types == {"text", "single_line_text_field", "number_integer"}
Pattern == [name |-> "pattern", value |-> "^[A-Z]{2}$"]
ValidationLists ==
    { << >>,
      <<Pattern>>,
      <<[name |-> "min", value |-> "3"]>>,
      <<[name |-> "in", value |-> "US,CA"]>>,
      <<[name |-> "max", value |-> "3"], [name |-> "choices", value |-> "x"]>> }

FieldDefs ==
    [key : Keys, type : Types, required : BOOLEAN, validations : ValidationLists]

\* definition["fields"]: up to MaxFields field definitions with distinct keys
Definitions ==
    { d \in UNION { [1..n -> FieldDefs] : n \in 0..MaxFields } :
        \A i, j \in DOMAIN d : i # j => d[i].key # d[j].key }

\* metaobject.fields: a dictionary from some of the keys to values
FieldDicts == UNION { [ks -> Values] : ks \in SUBSET Keys }

\* validate_metaobject_definition is called and runs to its end.
Validate ==
    /\ vpc = "idle"
    /\ \E fields \in FieldDicts, defs \in Definitions :
         /\ v_fields' = fields
         /\ v_definition' = defs
         /\ v_errors' = RequiredLoop(fields, defs) \o TypeLoop(fields, defs)
         /\ vresult' = validate_metaobject_definition(fields, defs)
    /\ vpc' = "done"

\* The declared types of type_map, and "text", which has no entry in it.
DeclaredTypes ==
    { "single_line_text_field", "multi_line_text_field", "number_integer",
      "number_decimal", "boolean", "date", "date_time", "json", "color",
      "rating", "dimension", "volume", "weight", "text" }

TypedValues == Values \cup {ListV}

TypedValidationLists ==
    ValidationLists \cup { <<[name |-> "in", value |-> "1,5"]>> }

\* validate_metaobject_definition is called on a record with the one field
\* `code` and a definition of that field of any declared type, and runs to its
\* end.
ValidateField ==
    /\ vpc = "idle"
    /\ \E t \in DeclaredTypes, req \in BOOLEAN, vs \in TypedValidationLists,
          v \in TypedValues :
         LET fields == [k \in {"code"} |-> v]
             defs == <<[key |-> "code", type |-> t, required |-> req,
                        validations |-> vs]>>
         IN /\ v_fields' = fields
            /\ v_definition' = defs
            /\ v_errors' = RequiredLoop(fields, defs) \o TypeLoop(fields, defs)
            /\ vresult' = validate_metaobject_definition(fields, defs)
    /\ vpc' = "done"

----------------------------------------------------------------------------
(* Record model *)

\* A Python dict is the sequence of its [key, value] entries in insertion
\* order, with distinct keys.
DictHas(d, k) == \E i \in DOMAIN d : d[i].key = k
DictGet(d, k) == d[CHOOSE i \in DOMAIN d : d[i].key = k].value
DictKeys(d) == { d[i].key : i \in DOMAIN d }

\* d[k] = v
DictSet(d, k, v) ==
    IF DictHas(d, k)
    THEN [i \in DOMAIN d |->
             IF d[i].key = k THEN [key |-> k, value |-> v] ELSE d[i]]
    ELSE Append(d, [key |-> k, value |-> v])

\* {f["key"]: f["value"] for f in list}
RECURSIVE DictOf(_)
DictOf(list) ==
    IF list = << >> THEN << >>
    ELSE LET f == list[Len(list)]
         IN DictSet(DictOf(SubSeq(list, 1, Len(list) - 1)), f.key, f.value)

\* Metaobject.__init__ of either class
Metaobject(type, handle, id, fields, metafields) ==
    [type |-> type, handle |-> handle, id |-> id, fields |-> fields,
     metafields |-> metafields]

\* A metafield as a payload carries it; namespace None stands for a metafield
\* without "namespace".
Metafield(key, value, namespace) ==
    [key |-> key, value |-> value, type |-> "single_line_text_field",
     namespace |-> namespace]

\* m.get('namespace', 'custom')
NamespaceOf(m) == IF m.namespace = None THEN "custom" ELSE m.namespace

\* The loop of the package class over data.get('metafields', []): the
\* metafields grouped by namespace, then by key.
RECURSIVE GroupByNamespace(_)
GroupByNamespace(list) ==
    IF list = << >> THEN << >>
    ELSE LET metafields == GroupByNamespace(SubSeq(list, 1, Len(list) - 1))
             m == list[Len(list)]
             ns == NamespaceOf(m)
             bucket == IF DictHas(metafields, ns) THEN DictGet(metafields, ns)
                       ELSE << >>
         IN DictSet(metafields, ns, DictSet(bucket, m.key, m))

\* The metafields of from_shopify_data. data.shape tells how the payload
\* carries its metafields: "absent" (no "metafields" member), "list" (a list of
\* metafields), "edges_node" ({"edges": [{"node": metafield}, ...]}, what the
\* loader's queries select) or "edges_flat" ({"edges": [metafield, ...]}).
\* The loader class reads data.get("metafields", {}).get("edges", []) and
\* indexes every edge by edge["key"]; the package class iterates
\* data.get('metafields', []) and calls m.get on every element.
HydrateMetafields(c, data) ==
    IF data.shape = "absent" THEN Return(<< >>)
    ELSE IF c = "loader" THEN
        CASE data.shape = "list" -> Raise("AttributeError")
          [] data.shape = "edges_node" ->
                 IF data.metafields = << >> THEN Return(<< >>)
                 ELSE Raise("KeyError")
          [] data.shape = "edges_flat" ->
                 Return(DictOf([i \in DOMAIN data.metafields |->
                                   [key |-> data.metafields[i].key,
                                    value |-> data.metafields[i]]]))
    ELSE
        CASE data.shape = "list" -> Return(GroupByNamespace(data.metafields))
          [] OTHER -> Raise("AttributeError")

\* Metaobject.from_shopify_data of class c; data.type, data.handle and data.id
\* are None when the payload has no such member (data.get).
Metaobject_from_shopify_data(c, data) ==
    LET fields == DictOf(data.fields)
        metafields == HydrateMetafields(c, data)
    IN IF metafields.kind = "raise" THEN metafields
       ELSE Return(Metaobject(data.type, data.handle, data.id, fields,
                              metafields.data))

\* Metaobject.to_shopify_fields
to_shopify_fields_raw(r) ==
    [i \in DOMAIN r.fields |->
        [key |-> r.fields[i].key, value |-> r.fields[i].value]]
to_shopify_fields(r) ==
    [i \in DOMAIN r.fields |->
        [key |-> r.fields[i].key, value |-> StrV(PyStr(r.fields[i].value))]]

\* Metaobject.get_metafield: the metafield as a sequence of one element, << >>
\* for None.
get_metafield(c, r, key, namespace) ==
    IF c = "loader" THEN
        LET k == namespace \o "." \o key
        IN IF DictHas(r.metafields, k) THEN <<DictGet(r.metafields, k)>>
           ELSE << >>
    ELSE
        IF DictHas(r.metafields, namespace)
           /\ DictHas(DictGet(r.metafields, namespace), key)
        THEN <<DictGet(DictGet(r.metafields, namespace), key)>>
        ELSE << >>

\* Metaobject.set_metafield: the instance after the call
set_metafield(c, r, key, value, type, namespace) ==
    LET m == [key |-> key, value |-> value, type |-> type,
              namespace |-> namespace]
    IN IF c = "loader"
       THEN [r EXCEPT !.metafields = DictSet(@, namespace \o "." \o key, m)]
       ELSE LET bucket == IF DictHas(r.metafields, namespace)
                          THEN DictGet(r.metafields, namespace) ELSE << >>
            IN [r EXCEPT !.metafields =
                   DictSet(@, namespace, DictSet(bucket, key, m))]

\* The wire object {type, handle, fields: R.to_shopify_fields()}
WireObject(r) ==
    [type |-> r.type, handle |-> r.handle, id |-> None,
     fields |-> to_shopify_fields(r), metafields |-> << >>,
     shape |-> "absent"]

\* The transport call of _upsert_metaobject: the query and its variables
UpsertVariables(metaobject) ==
    [handle |-> [type |-> metaobject.type, handle |-> metaobject.handle],
     metaobject |-> [fields |-> to_shopify_fields(metaobject)]]

\* _upsert_metaobject after its _make_request call did t. t.data.metaobject
\* is data["metaobjectUpsert"]["metaobject"] as a sequence of one element,
\* << >> when it is null or absent; the result is the Metaobject as a sequence
\* of one element, << >> for None.
UpsertResult(t) ==
    IF t.kind = "raise" THEN t
    ELSE IF t.data.metaobject = << >> THEN Return(<< >>)
    ELSE LET h == Metaobject_from_shopify_data("loader", t.data.metaobject[1])
         IN IF h.kind = "raise" THEN h ELSE Return(<<h.data>>)

MaxSets == 2
MaxRoundTrips == 2

FieldEntry(k, v) == [key |-> k, value |-> v]

\* The fields of a locally constructed record
RecordFields ==
    { << >>,
      <<FieldEntry("code", StrV("US"))>>,
      <<FieldEntry("qty", IntV(1)), FieldEntry("code", StrV("US"))>>,
      <<FieldEntry("code", FloatV(15)), FieldEntry("qty", BoolV(TRUE))>>,
      <<FieldEntry("qty", DictV)>> }

\* The "fields" list of a payload; a server may repeat a key.
PayloadFields ==
    { << >>,
      <<FieldEntry("code", StrV("US"))>>,
      <<FieldEntry("qty", StrV("5")), FieldEntry("code", StrV("US"))>>,
      <<FieldEntry("code", StrV("US")), FieldEntry("code", StrV("us"))>> }

\* The metafields of a payload
PayloadMetafields ==
    { << >>,
      <<Metafield("title", "v1", "custom")>>,
      <<Metafield("title", "v1", None)>>,
      <<Metafield("title", "v1", "seo"), Metafield("title", "v2", "custom")>>,
      <<Metafield("rank", "v1", "custom"), Metafield("rank", "v2", "custom")>> }

\* The payloads given to from_shopify_data
WirePayloads ==
    { d \in [type : {None, "region"}, handle : {None, "h1"}, id : {"gid1"},
             fields : PayloadFields, metafields : PayloadMetafields,
             shape : {"absent", "list", "edges_node", "edges_flat"}] :
        d.shape = "absent" => d.metafields = << >> }

\* The metaobjects a metaobjectUpsert response may carry: the selection of the
\* mutation, with its metafields as edges of nodes.
ServerMetaobjects ==
    [type : {"region"}, handle : {"h1"}, id : {"gid1"},
     fields : PayloadFields, metafields : PayloadMetafields,
     shape : {"edges_node"}]

\* What the _make_request call of _upsert_metaobject can do: raise what the
\* transport raises, or return the data of the response.
UpsertOutcomes ==
    { Raise("ShopifyAPIError"), Raise("ShopifyUserError"),
      RaiseFrom("RetryError", "HTTPError") }
    \cup { Return([metaobject |-> << >>]) }
    \cup { Return([metaobject |-> <<p>>]) : p \in ServerMetaobjects }

MetafieldKeys == {"title", "rank"}
MetafieldNamespaces == {"custom", "seo"}

NoRecord == Metaobject(None, None, None, << >>, << >>)

RecordInit ==
    /\ rpc = "idle"
    /\ mcls = "loader"
    /\ record = NoRecord
    /\ round_trips = << >>
    /\ payload = [type |-> None, handle |-> None, id |-> None,
                  fields |-> << >>, metafields |-> << >>, shape |-> "absent"]
    /\ hresult = None
    /\ before = NoRecord
    /\ sets = << >>
    /\ calls = << >>
    /\ uresult = None

\* Metaobject(type=t, handle=h, fields=fl) of class c
Construct(c, t, h, fl) ==
    /\ rpc = "idle"
    /\ mcls' = c
    /\ record' = Metaobject(t, h, None, fl, << >>)
    /\ rpc' = "local"
    /\ UNCHANGED <<round_trips, payload, hresult, before, sets, calls, uresult>>

\* Metaobject.from_shopify_data(data) of class c
Hydrate(c, data) ==
    /\ rpc = "idle"
    /\ mcls' = c
    /\ payload' = data
    /\ LET h == Metaobject_from_shopify_data(c, data)
       IN /\ hresult' = h
          /\ rpc' = IF h.kind = "return" THEN "hydrated" ELSE "failed"
          /\ record' = IF h.kind = "return" THEN h.data ELSE record
    /\ UNCHANGED <<round_trips, before, sets, calls, uresult>>

\* record.set_metafield(key, value, namespace=namespace)
SetMetafield(key, value, namespace) ==
    /\ rpc \in {"local", "hydrated", "set"}
    /\ Len(sets) < MaxSets
    /\ before' = record
    /\ record' = set_metafield(mcls, record, key, value,
                               "single_line_text_field", namespace)
    /\ sets' = Append(sets, [key |-> key, value |-> value,
                             type |-> "single_line_text_field",
                             namespace |-> namespace])
    /\ rpc' = "set"
    /\ UNCHANGED <<mcls, round_trips, payload, hresult, calls, uresult>>

\* from_shopify_data({type, handle, fields: record.to_shopify_fields()})
\* to_shopify_fields reads self.fields only, which set_metafield never
\* writes: the trip is taken from a constructed or hydrated record.
RoundTrip ==
    /\ rpc \in {"local", "hydrated", "roundtrip"}
    /\ Len(round_trips) < MaxRoundTrips
    /\ LET h == Metaobject_from_shopify_data(mcls, WireObject(record))
       IN /\ h.kind = "return"
          /\ record' = h.data
    /\ round_trips' = Append(round_trips, record)
    /\ rpc' = "roundtrip"
    /\ UNCHANGED <<mcls, payload, hresult, before, sets, calls, uresult>>

\* _upsert_metaobject(record), its one _make_request call doing t
UpsertOne ==
    /\ rpc \in {"local", "hydrated"}
    /\ mcls = "loader"
    /\ \E t \in UpsertOutcomes :
         /\ calls' = Append(calls, [query |-> "metaobjectUpsert",
                                    variables |-> UpsertVariables(record),
                                    outcome |-> t])
         /\ uresult' = UpsertResult(t)
    /\ rpc' = "upserted"
    /\ UNCHANGED <<mcls, record, round_trips, payload, hresult, before, sets>>

----------------------------------------------------------------------------
(* Tabular loader *)

MaxRows == 2

\* The column lists of the sources: "handle" first, "handle" second, no
\* "handle" column.
ColumnLists ==
    { <<"handle", "code">>, <<"code", "handle">>, <<"name", "code">> }

\* row[column] of the i-th row that df.iterrows() yields
Cell(i, column) ==
    CASE column = "handle" -> StrV(<<"h1", "h2", "h3", "h4">>[i])
      [] column = "code" -> <<StrV("US"), IntV(1), FloatV(15), StrV("us")>>[i]
      [] OTHER -> StrV("abc")

\* What pd.read_csv(file_path) does: it raises FileNotFoundError or
\* EmptyDataError, or gives a frame of columns and k rows.
Sources ==
    { [read |-> e, columns |-> << >>, rows |-> 0] :
        e \in {"FileNotFoundError", "EmptyDataError"} }
    \cup { [read |-> "ok", columns |-> c, rows |-> k] :
             c \in ColumnLists, k \in 0..MaxRows }

\* fields = {column: str(row[column]) for column in row.index
\*           if column != "handle"}
RECURSIVE RowFields(_, _)
RowFields(i, columns) ==
    IF columns = << >> THEN << >>
    ELSE LET column == columns[Len(columns)]
             rest == RowFields(i, SubSeq(columns, 1, Len(columns) - 1))
         IN IF column # "handle"
            THEN DictSet(rest, column, StrV(PyStr(Cell(i, column))))
            ELSE rest

\* The Metaobject process_csv builds for row i; row["handle"] raises KeyError
\* when the frame has no "handle" column.
RowMetaobject(i, columns, type) ==
    IF \A j \in DOMAIN columns : columns[j] # "handle"
    THEN Raise("KeyError")
    ELSE Return(Metaobject(type, Cell(i, "handle"), None,
                           RowFields(i, columns), << >>))

\* The try statement of process_csv around one row, given the outcome o of
\* _upsert_metaobject: the tally after it, or the exception that leaves the
\* method.
TallyRow(st, o) ==
    IF o.kind = "return" THEN
        IF o.data # None
        THEN [raised |-> FALSE, stats |-> [st EXCEPT !.upserted = @ + 1]]
        ELSE [raised |-> FALSE, stats |-> [st EXCEPT !.failed = @ + 1]]
    ELSE IF IsInstance(o.err, "ShopifyAPIError")
    THEN [raised |-> FALSE, stats |-> [st EXCEPT !.failed = @ + 1]]
    ELSE [raised |-> TRUE, stats |-> st]

CsvInit ==
    /\ cpc = "idle"
    /\ csv = [read |-> "ok", columns |-> << >>, rows |-> 0]
    /\ row_index = 0
    /\ cstats = [upserted |-> 0, failed |-> 0]
    /\ built = << >>
    /\ coutcomes = << >>
    /\ cresult = None

\* process_csv(file_path, metaobject_type) is called and reads the source.
CsvCall(src) ==
    /\ cpc = "idle"
    /\ csv' = src
    /\ IF src.read = "ok"
       THEN /\ cpc' = "loop"
            /\ cresult' = cresult
       ELSE /\ cpc' = "raised"
            /\ cresult' = Raise(src.read)
    /\ UNCHANGED <<row_index, cstats, built, coutcomes>>

\* df.iterrows() yields a row: its Metaobject is built and _upsert_metaobject
\* calls _make_request.
RowBegin ==
    /\ cpc = "loop"
    /\ row_index < csv.rows
    /\ tpc = "idle"
    /\ LET m == RowMetaobject(row_index + 1, csv.columns, "region")
       IN IF m.kind = "raise"
          THEN /\ cpc' = "raised"
               /\ cresult' = m
               /\ UNCHANGED <<built, tvars>>
          ELSE /\ cpc' = "upserting"
               /\ built' = Append(built, m.data)
               /\ cresult' = cresult
               /\ TransportCall("loader")
    /\ UNCHANGED <<csv, row_index, cstats, coutcomes>>

\* _make_request is over: _upsert_metaobject finishes, the row is tallied and
\* the loop goes on, unless the exception leaves the method.
RowEnd ==
    /\ cpc = "upserting"
    /\ tpc \in {"returned", "raised"}
    /\ LET o == _upsert_metaobject(tresult)
           t == TallyRow(cstats, o)
       IN /\ coutcomes' = Append(coutcomes, o)
          /\ cstats' = t.stats
          /\ IF t.raised
             THEN /\ cpc' = "raised"
                  /\ cresult' = o
                  /\ row_index' = row_index
             ELSE /\ cpc' = "loop"
                  /\ cresult' = cresult
                  /\ row_index' = row_index + 1
    /\ tpc' = "idle"
    /\ attempt_number' = 0
    /\ tlog' = << >>
    /\ waits' = << >>
    /\ tresult' = None
    /\ UNCHANGED <<impl, csv, built>>

\* df.iterrows() is exhausted: return stats.
CsvReturn ==
    /\ cpc = "loop"
    /\ row_index >= csv.rows
    /\ cpc' = "returned"
    /\ cresult' = Return(cstats)
    /\ UNCHANGED <<csv, row_index, cstats, built, coutcomes>>

----------------------------------------------------------------------------
(* Schema descriptor *)

MaxNodes == 2

\* The nodes of metaobjectDefinitions as the list query selects them
DefinitionNodes ==
    { [id |-> "gid1", type |-> "region"],
      [id |-> "gid2", type |-> "Region"],
      [id |-> "gid3", type |-> "region"] }

NodeLists == UNION { [1..n -> DefinitionNodes] : n \in 0..MaxNodes }

\* What requests.post can give the list request
ListResponses ==
    { [net |-> "fail", status |-> 0, errors |-> FALSE, nodes |-> << >>] }
    \cup { [net |-> "ok", status |-> 500, errors |-> FALSE, nodes |-> << >>] }
    \cup { [net |-> "ok", status |-> 200, errors |-> TRUE, nodes |-> << >>] }
    \cup { [net |-> "ok", status |-> 200, errors |-> FALSE, nodes |-> l] :
             l \in NodeLists }

\* fieldDefinitions as the definition query selects them: key, name and
\* type { name }
FieldDefinitionLists ==
    { << >>,
      <<[key |-> "code", name |-> "Code",
         type |-> [name |-> "single_line_text_field"]]>>,
      <<[key |-> "code", name |-> "Code",
         type |-> [name |-> "single_line_text_field"]],
        [key |-> "qty", name |-> "Quantity",
         type |-> [name |-> "number_integer"]]>> }

\* metaobjectDefinition as the definition query selects it
DefinitionObjects ==
    [type : {"region", "Region"}, name : {"Region"}, description : {""},
     fieldDefinitions : FieldDefinitionLists]

\* What requests.post can give the definition request; definition is
\* data.metaobjectDefinition as a sequence of one element, << >> for null.
DefinitionResponses ==
    { [net |-> "fail", status |-> 0, errors |-> FALSE, definition |-> << >>] }
    \cup { [net |-> "ok", status |-> 500, errors |-> FALSE,
            definition |-> << >>] }
    \cup { [net |-> "ok", status |-> 200, errors |-> TRUE,
            definition |-> << >>] }
    \cup { [net |-> "ok", status |-> 200, errors |-> FALSE,
            definition |-> << >>] }
    \cup { [net |-> "ok", status |-> 200, errors |-> FALSE,
            definition |-> <<d>>] : d \in DefinitionObjects }

\* next((d for d in definitions if d["type"] == metaobject_type), None): the
\* index of the first match, 0 for None
matching_definition(definitions, type) ==
    LET I == { i \in DOMAIN definitions : definitions[i].type = type }
    IN IF I = {} THEN 0 ELSE CHOOSE i \in I : \A j \in I : i <= j

\* Step 1 of fetch_metaobject_definition on the response r: the exception it
\* raises, Return(<< >>) for `return None`, or Return(<<id>>) when it goes on
\* to step 2 with metaobject_id.
FetchDefinitionStep1(r, type) ==
    IF r.net = "fail" THEN Raise("ConnectionError")
    ELSE IF raise_for_status(r) THEN Raise("HTTPError")
    ELSE IF r.errors THEN Return(<< >>)
    ELSE LET m == matching_definition(r.nodes, type)
         IN IF m = 0 THEN Return(<< >>) ELSE Return(<<r.nodes[m].id>>)

\* Step 2 of fetch_metaobject_definition on the response r: what the method
\* returns (the definition as a sequence of one element, << >> for None) or
\* raises.
FetchDefinitionStep2(r) ==
    IF r.net = "fail" THEN Raise("ConnectionError")
    ELSE IF raise_for_status(r) THEN Raise("HTTPError")
    ELSE IF r.errors THEN Return(<< >>)
    ELSE Return(r.definition)

\* field_types[field_type] = field_types.get(field_type, 0) + 1, over fields
RECURSIVE FieldTypeCounts(_)
FieldTypeCounts(fields) ==
    IF fields = << >> THEN << >>
    ELSE LET counts == FieldTypeCounts(SubSeq(fields, 1, Len(fields) - 1))
             field_type == fields[Len(fields)].type
         IN DictSet(counts, field_type,
                    IF DictHas(counts, field_type)
                    THEN DictGet(counts, field_type) + 1 ELSE 1)

\* The description describe_metaobject_type builds from definition["fields"]
Description(definition) ==
    LET fields == definition.fields
        required_fields == SelectSeq(fields, LAMBDA f : f.required)
        optional_fields == SelectSeq(fields, LAMBDA f : ~f.required)
    IN [type |-> definition.type,
        name |-> definition.name,
        field_summary |->
            [total_fields |-> Len(fields),
             field_types |-> FieldTypeCounts(fields),
             required_fields |-> Len(required_fields),
             optional_fields |-> Len(optional_fields)],
        fields |-> [required |-> required_fields,
                    optional |-> optional_fields]]

\* describe_metaobject_type after fetch_metaobject_definition did f. The
\* definition is the object of the response, which has "fieldDefinitions"
\* and no "fields".
describe_metaobject_type(f) ==
    IF f.kind = "raise" THEN f
    ELSE IF f.data = << >> THEN Raise("ValueError")
    ELSE IF "fields" \notin DOMAIN f.data[1] THEN Raise("KeyError")
    ELSE Return(Description(f.data[1]))

DescribeInit ==
    /\ dpc = "idle"
    /\ metaobject_type = "region"
    /\ d_requests = << >>
    /\ d_listing = [net |-> "fail", status |-> 0, errors |-> FALSE,
                    nodes |-> << >>]
    /\ d_definition = [net |-> "fail", status |-> 0, errors |-> FALSE,
                       definition |-> << >>]
    /\ dresult = None

\* describe_metaobject_type(type) is called and calls
\* fetch_metaobject_definition.
DescribeCall(type) ==
    /\ dpc = "idle"
    /\ metaobject_type' = type
    /\ dpc' = "listing"
    /\ UNCHANGED <<d_requests, d_listing, d_definition, dresult>>

\* Step 1 of fetch_metaobject_definition: the list request and the lookup of
\* the type; describe_metaobject_type ends here when the step raises or
\* returns None.
ListDefinitions ==
    /\ dpc = "listing"
    /\ d_requests' = Append(d_requests, [query |-> "metaobjectDefinitions",
                                         id |-> None])
    /\ \E r \in ListResponses :
         LET f == FetchDefinitionStep1(r, metaobject_type)
         IN /\ d_listing' = r
            /\ IF f.kind = "return" /\ f.data # << >>
               THEN /\ dpc' = "defining"
                    /\ dresult' = dresult
               ELSE /\ dpc' = "raised"
                    /\ dresult' = describe_metaobject_type(f)
    /\ UNCHANGED <<metaobject_type, d_definition>>

\* Step 2 of fetch_metaobject_definition: the definition request by id; then
\* describe_metaobject_type runs to its end.
FetchDefinition ==
    /\ dpc = "defining"
    /\ LET id == FetchDefinitionStep1(d_listing, metaobject_type).data[1]
       IN d_requests' = Append(d_requests, [query |-> "metaobjectDefinition",
                                            id |-> id])
    /\ \E r \in DefinitionResponses :
         LET d == describe_metaobject_type(FetchDefinitionStep2(r))
         IN /\ d_definition' = r
            /\ dresult' = d
            /\ dpc' = IF d.kind = "return" THEN "returned" ELSE "raised"
    /\ UNCHANGED <<metaobject_type, d_listing>>

----------------------------------------------------------------------------
(* Projections of the fetched collection *)

\* The node object that the integer n stands for in the pages, as the
\* getMetaobjects query selects it: id, handle, fields { key value }.
ServerNode(n) ==
    CASE n = 1 -> [id |-> "gid1", handle |-> "h1",
                   fields |-> <<[key |-> "code", value |-> "A"],
                                [key |-> "rank", value |-> "0"]>>]
      [] n = 2 -> [id |-> "gid2", handle |-> "h2",
                   fields |-> <<[key |-> "code", value |-> ""],
                                [key |-> "rank", value |-> "7"]>>]
      [] OTHER -> [id |-> "gid3", handle |-> "h3",
                   fields |-> <<[key |-> "rank", value |-> "0"]>>]

\* d.get(k)
DictGetOrNone(d, k) == IF DictHas(d, k) THEN DictGet(d, k) ELSE None

\* `not key_value` for None or a string
Not(value) == value = None \/ value = ""

\* fields_dict of one fetched metaobject: its fields by key, then "handle"
\* and "id"
FieldsDict(metaobject) ==
    DictSet(DictSet(DictOf(metaobject.fields), "handle", metaobject.handle),
            "id", metaobject.id)

\* The for loop of fetch_metaobjects_as_dict over the metaobjects left, with
\* the result so far.
RECURSIVE AsDictLoop(_, _, _)
AsDictLoop(left, key, result) ==
    IF left = << >> THEN Return(result)
    ELSE LET fields_dict == FieldsDict(ServerNode(Head(left)))
             key_value == DictGetOrNone(fields_dict, key)
         IN IF Not(key_value) THEN Raise("ValueError")
            ELSE AsDictLoop(Tail(left), key,
                            DictSet(result, key_value, fields_dict))

\* fetch_metaobjects_as_dict, given what fetch_all_metaobjects did
fetch_metaobjects_as_dict(f, key) ==
    IF f.kind = "raise" THEN f ELSE AsDictLoop(f.data, key, << >>)

\* get_metaobject_stats, given what fetch_all_metaobjects did: the fetched
\* metaobjects are dicts, and `metaobject.fields` of the first one raises
\* AttributeError.
get_metaobject_stats(f) ==
    IF f.kind = "raise" THEN f
    ELSE IF f.data = << >>
    THEN Return([total |-> 0, fields |-> << >>, metafields |-> << >>])
    ELSE Raise("AttributeError")

KeyFields == {"handle", "id", "code", "rank", "title"}

ProjectInit ==
    /\ ppc = "idle"
    /\ p_op = "as_dict"
    /\ key_field = "handle"
    /\ presult = None

\* fetch_metaobjects_as_dict(metaobject_type, key) is called and calls
\* fetch_all_metaobjects.
AsDictCall(key) ==
    /\ ppc = "idle"
    /\ ppc' = "fetching"
    /\ p_op' = "as_dict"
    /\ key_field' = key
    /\ presult' = presult
    /\ FetchAllCall

\* get_metaobject_stats(metaobject_type) is called and calls
\* fetch_all_metaobjects.
StatsCall ==
    /\ ppc = "idle"
    /\ ppc' = "fetching"
    /\ p_op' = "stats"
    /\ UNCHANGED <<key_field, presult>>
    /\ FetchAllCall

\* fetch_all_metaobjects is over: the projection is built and returned, or
\* an exception leaves the method.
AsDictEnd ==
    /\ ppc = "fetching"
    /\ p_op = "as_dict"
    /\ fpc \in {"returned", "raised"}
    /\ presult' = fetch_metaobjects_as_dict(fresult, key_field)
    /\ ppc' = IF presult'.kind = "return" THEN "returned" ELSE "raised"
    /\ UNCHANGED <<p_op, key_field>>

StatsEnd ==
    /\ ppc = "fetching"
    /\ p_op = "stats"
    /\ fpc \in {"returned", "raised"}
    /\ presult' = get_metaobject_stats(fresult)
    /\ ppc' = IF presult'.kind = "return" THEN "returned" ELSE "raised"
    /\ UNCHANGED <<p_op, key_field>>

----------------------------------------------------------------------------
(* Cache *)

MaxTime == 4

CacheKeys == {"k1", "k2"}
CacheData == {"d1", "d2"}
Ttls == {1, 2}

\* datetime.isoformat() and datetime.fromisoformat(): the text of an instant
\* and the instant of a text
isoformat(t) == <<"iso", t>>
fromisoformat(x) == x[2]

\* The file json.dump writes in _save_to_cache at the instant t
CacheFile(t, data, ttl_seconds) ==
    [timestamp |-> isoformat(t + ttl_seconds), data |-> data]

\* `datetime.fromisoformat(data["timestamp"]) < datetime.now()`
cache_entry_is_served(file, t) == fromisoformat(file.timestamp) < t

\* _get_from_cache(key) at the instant t: << >> for None, <<d>> for data d
_get_from_cache(dir, fs, key, t) ==
    IF dir = None THEN << >>
    ELSE IF fs[key] = << >> THEN << >>
    ELSE IF cache_entry_is_served(fs[key][1], t) THEN <<fs[key][1].data>>
    ELSE << >>

\* _save_to_cache(key, data, ttl_seconds) at the instant t: the files after it
_save_to_cache(dir, fs, key, data, ttl_seconds, t) ==
    IF dir = None THEN fs
    ELSE [fs EXCEPT ![key] = <<CacheFile(t, data, ttl_seconds)>>]

CacheInit ==
    /\ now = 0
    /\ cache_dir = None
    /\ files = [k \in CacheKeys |-> << >>]
    /\ writes = [k \in CacheKeys |-> << >>]
    /\ cget = << >>

\* The loader is constructed with a cache_dir.
OpenCache ==
    /\ cache_dir = None
    /\ now = 0
    /\ writes = [k \in CacheKeys |-> << >>]
    /\ cache_dir' = "cache"
    /\ UNCHANGED <<now, files, writes, cget>>

\* Time passes.
Tick ==
    /\ now < MaxTime
    /\ now' = now + 1
    /\ UNCHANGED <<cache_dir, files, writes, cget>>

SaveToCache(key, data, ttl_seconds) ==
    /\ files' = _save_to_cache(cache_dir, files, key, data, ttl_seconds, now)
    /\ writes' = [writes EXCEPT ![key] =
                     <<[at |-> now, ttl |-> ttl_seconds, data |-> data]>>]
    /\ UNCHANGED <<now, cache_dir, cget>>

GetFromCache(key) ==
    /\ cget' = <<[key |-> key, at |-> now, written |-> writes[key],
                  result |-> _get_from_cache(cache_dir, files, key, now)]>>
    /\ UNCHANGED <<now, cache_dir, files, writes>>

----------------------------------------------------------------------------
(* Specifications *)

ValidateInit ==
    /\ vpc = "idle"
    /\ v_fields = << >>
    /\ v_definition = << >>
    /\ v_errors = << >>
    /\ vresult = None

Init ==
    /\ TransportInit /\ BatchInit /\ FetchInit /\ ValidateInit
    /\ RecordInit /\ CsvInit /\ DescribeInit /\ ProjectInit
    /\ CacheInit

\* One transport call, of either implementation.
TransportNext ==
    \/ (\E i \in {"loader", "api"} : TransportCall(i))
         /\ UNCHANGED <<bvars, fvars, vvars, rvars, cvars, dvars, pvars, kvars>>
    \/ Attempt /\ UNCHANGED <<bvars, fvars, vvars, rvars, cvars, dvars, pvars, kvars>>
    \/ WakeUp /\ UNCHANGED <<bvars, fvars, vvars, rvars, cvars, dvars, pvars, kvars>>

Spec == Init /\ [][TransportNext]_vars

\* One call of batch_upsert_metaobjects, its transport calls included.
BatchNext ==
    \/ (\E k \in 0..MaxRecords, size \in 1..MaxBatchSize : BatchCall(k, size))
         /\ UNCHANGED <<tvars, fvars, vvars, rvars, cvars, dvars, pvars, kvars>>
    \/ UpsertBegin /\ UNCHANGED <<fvars, vvars, rvars, cvars, dvars, pvars, kvars>>
    \/ Attempt /\ bpc = "upserting" /\ UNCHANGED <<bvars, fvars, vvars, rvars, cvars, dvars, pvars, kvars>>
    \/ WakeUp /\ bpc = "upserting" /\ UNCHANGED <<bvars, fvars, vvars, rvars, cvars, dvars, pvars, kvars>>
    \/ UpsertEnd /\ UNCHANGED <<fvars, vvars, rvars, cvars, dvars, pvars, kvars>>
    \/ BatchReturn /\ UNCHANGED <<tvars, fvars, vvars, rvars, cvars, dvars, pvars, kvars>>

SpecBatch == Init /\ [][BatchNext]_vars

\* One call of fetch_all_metaobjects.
FetchNext ==
    \/ FetchAllCall /\ UNCHANGED <<tvars, bvars, vvars, rvars, cvars, dvars, pvars, kvars>>
    \/ FetchPage /\ UNCHANGED <<tvars, bvars, vvars, rvars, cvars, dvars, pvars, kvars>>

SpecFetch == Init /\ [][FetchNext]_vars

\* One call of fetch_all_metaobjects of any length. The method is sequential
\* code: whenever it can take a step that changes its position or its locals,
\* it takes one.
FetchLiveNext ==
    \/ FetchAllCall
         /\ UNCHANGED <<tvars, bvars, vvars, rvars, cvars, dvars, pvars, kvars>>
    \/ FetchPageUnlogged
         /\ UNCHANGED <<tvars, bvars, vvars, rvars, cvars, dvars, pvars, kvars>>

SpecFetchLive ==
    Init /\ [][FetchLiveNext]_vars
         /\ WF_<<fpc, all_metaobjects, has_next_page, cursor>>(FetchLiveNext)

\* One call of validate_metaobject_definition.
ValidateNext ==
    \/ Validate /\ UNCHANGED <<tvars, bvars, fvars, rvars, cvars, dvars, pvars, kvars>>

SpecValidate == Init /\ [][ValidateNext]_vars

\* One call of validate_metaobject_definition on a one-field record, over all
\* the declared types.
ValidateFieldNext ==
    \/ ValidateField /\ UNCHANGED <<tvars, bvars, fvars, rvars, cvars, dvars, pvars, kvars>>

SpecValidateField == Init /\ [][ValidateFieldNext]_vars

\* One Metaobject instance of either class: built or hydrated, then changed,
\* round-tripped or upserted.
RecordNext ==
    \/ (\E c \in {"loader", "package"}, h \in {"h1"}, fl \in RecordFields :
            Construct(c, "region", h, fl))
         /\ UNCHANGED <<tvars, bvars, fvars, vvars, cvars, dvars, pvars, kvars>>
    \/ (\E c \in {"loader", "package"}, data \in WirePayloads :
            Hydrate(c, data))
         /\ UNCHANGED <<tvars, bvars, fvars, vvars, cvars, dvars, pvars, kvars>>
    \/ (\E k \in MetafieldKeys, v \in {"v1", "v2"},
           ns \in MetafieldNamespaces : SetMetafield(k, v, ns))
         /\ UNCHANGED <<tvars, bvars, fvars, vvars, cvars, dvars, pvars, kvars>>
    \/ RoundTrip /\ UNCHANGED <<tvars, bvars, fvars, vvars, cvars, dvars, pvars, kvars>>
    \/ UpsertOne /\ UNCHANGED <<tvars, bvars, fvars, vvars, cvars, dvars, pvars, kvars>>

SpecRecord == Init /\ [][RecordNext]_vars

\* One call of process_csv, its transport calls included.
CsvNext ==
    \/ (\E src \in Sources : CsvCall(src))
         /\ UNCHANGED <<tvars, bvars, fvars, vvars, rvars, dvars, pvars, kvars>>
    \/ RowBegin /\ UNCHANGED <<bvars, fvars, vvars, rvars, dvars, pvars, kvars>>
    \/ Attempt /\ cpc = "upserting"
         /\ UNCHANGED <<bvars, fvars, vvars, rvars, cvars, dvars, pvars, kvars>>
    \/ WakeUp /\ cpc = "upserting"
         /\ UNCHANGED <<bvars, fvars, vvars, rvars, cvars, dvars, pvars, kvars>>
    \/ RowEnd /\ UNCHANGED <<bvars, fvars, vvars, rvars, dvars, pvars, kvars>>
    \/ CsvReturn /\ UNCHANGED <<tvars, bvars, fvars, vvars, rvars, dvars, pvars, kvars>>

SpecCsv == Init /\ [][CsvNext]_vars

\* One call of describe_metaobject_type.
DescribeNext ==
    \/ (\E type \in {"region", "Region", "product"} : DescribeCall(type))
         /\ UNCHANGED <<tvars, bvars, fvars, vvars, rvars, cvars, pvars, kvars>>
    \/ ListDefinitions /\ UNCHANGED <<tvars, bvars, fvars, vvars, rvars, cvars, pvars, kvars>>
    \/ FetchDefinition /\ UNCHANGED <<tvars, bvars, fvars, vvars, rvars, cvars, pvars, kvars>>

SpecDescribe == Init /\ [][DescribeNext]_vars

\* One call of fetch_metaobjects_as_dict or get_metaobject_stats, its page
\* requests included.
ProjectNext ==
    \/ (\E key \in KeyFields : AsDictCall(key))
         /\ UNCHANGED <<tvars, bvars, vvars, rvars, cvars, dvars, kvars>>
    \/ StatsCall /\ UNCHANGED <<tvars, bvars, vvars, rvars, cvars, dvars, kvars>>
    \/ FetchPage /\ ppc = "fetching"
         /\ UNCHANGED <<tvars, bvars, vvars, rvars, cvars, dvars, pvars, kvars>>
    \/ AsDictEnd /\ UNCHANGED <<tvars, bvars, fvars, vvars, rvars, cvars, dvars, kvars>>
    \/ StatsEnd /\ UNCHANGED <<tvars, bvars, fvars, vvars, rvars, cvars, dvars, kvars>>

SpecProject == Init /\ [][ProjectNext]_vars

\* The cache of one loader over time.
CacheNext ==
    \/ OpenCache
         /\ UNCHANGED <<tvars, bvars, fvars, vvars, rvars, cvars, dvars, pvars>>
    \/ Tick /\ UNCHANGED <<tvars, bvars, fvars, vvars, rvars, cvars, dvars, pvars>>
    \/ (\E key \in CacheKeys, data \in CacheData, ttl \in Ttls :
            SaveToCache(key, data, ttl))
         /\ UNCHANGED <<tvars, bvars, fvars, vvars, rvars, cvars, dvars, pvars>>
    \/ (\E key \in CacheKeys : GetFromCache(key))
         /\ UNCHANGED <<tvars, bvars, fvars, vvars, rvars, cvars, dvars, pvars>>

SpecCache == Init /\ [][CacheNext]_vars

----------------------------------------------------------------------------
(* Claims about the transport, checked under Spec *)

\* The exception of attempt i is one the claims call retryable: a rate-limit
\* error or a network/HTTP failure.
FailedRetryable(i) ==
    /\ tlog[i].outcome.kind = "raise"
    /\ \/ IsInstance(tlog[i].outcome.err, "ShopifyRateLimitError")
       \/ IsInstance(tlog[i].outcome.err, "RequestException")

AllAttemptsFailedRetryable ==
    /\ tpc = "raised"
    /\ Len(tlog) = MaxAttempts
    /\ \A i \in 1..MaxAttempts : FailedRetryable(i)

\* C1: when all 3 attempts of one transport call fail with a retryable error,
\* the caller receives the last attempt's own error, of the same kind, and not
\* a different or wrapping error type.
C1_LastErrorSurfacedUnchanged ==
    AllAttemptsFailedRetryable =>
        /\ tresult.kind = "raise"
        /\ tresult.err = tlog[MaxAttempts].outcome.err

\* C4: one transport call issues at most 3 attempts; every attempt but the last
\* failed with a rate-limit error or a network/transport failure; an attempt
\* that succeeds is the last one, and the call returns that attempt's data.
C4_RetryPolicy ==
    /\ Len(tlog) <= 3
    /\ attempt_number = Len(tlog)
    /\ \A i \in 1..Len(tlog) :
         /\ i < Len(tlog) => FailedRetryable(i)
         /\ tlog[i].outcome.kind = "return" =>
              /\ i = Len(tlog)
              /\ tpc = "returned"
              /\ tresult.kind = "return"
              /\ tresult.data = tlog[i].resp.data
    /\ tpc = "sleeping" => FailedRetryable(Len(tlog))
    /\ tpc = "returned" =>
         /\ tlog # << >>
         /\ tlog[Len(tlog)].outcome.kind = "return"

\* C4 witness: a call that returned the payload of its 3rd attempt, a mutation
\* response with a metaobject, after two failed attempts.
C4_Witness ==
    /\ tpc = "returned"
    /\ Len(tlog) = 3
    /\ tresult.data.metaobject = "plain"

\* The failures C5 calls non-retryable: an authorization failure (HTTP 401 or
\* 403), a GraphQL `errors` response, mutation user errors.
AuthorizationFailure(i) ==
    /\ tlog[i].resp.net = "ok"
    /\ tlog[i].resp.status \in {401, 403}
    /\ tlog[i].outcome.kind = "raise"

GraphQLFailure(i) ==
    /\ tlog[i].resp.net = "ok"
    /\ tlog[i].resp.status = 200
    /\ tlog[i].outcome.kind = "raise"
    /\ \/ tlog[i].resp.errors # "absent"
       \/ tlog[i].resp.data.userErrors = "nonempty"

\* Attempt i ended the call: its failure was raised at once, unchanged, and no
\* further attempt was made.
EndedCall(i) ==
    /\ i = Len(tlog)
    /\ tpc = "raised"
    /\ tresult = tlog[i].outcome

\* C5 as stated: an attempt that fails with a non-retryable failure (an
\* authorization failure, a GraphQL errors response, user errors) ends the
\* transport call: the failure is raised at once and no second attempt is made.
C5_NonRetryableFailsAtOnce ==
    \A i \in 1..Len(tlog) :
        (AuthorizationFailure(i) \/ GraphQLFailure(i)) => EndedCall(i)

\* C5 as amended: an attempt that fails with a GraphQL errors response
\* (ShopifyAPIError) or with mutation user errors (ShopifyUserError) ends the
\* call at once with that error; an attempt that fails with an HTTP error
\* status such as 401 or 403 raises an HTTPError, a RequestException, and is
\* retried like a network failure unless it was the 3rd attempt.
C5_GraphQLFailsAtOnceHttpErrorRetried ==
    \A i \in 1..Len(tlog) :
        /\ GraphQLFailure(i) =>
             /\ EndedCall(i)
             /\ tresult.err \in {"ShopifyAPIError", "ShopifyUserError"}
        /\ AuthorizationFailure(i) =>
             /\ tlog[i].outcome.err = "HTTPError"
             /\ i < MaxAttempts => ~EndedCall(i)
             /\ i < MaxAttempts /\ i = Len(tlog) =>
                  tpc \in {"sleeping", "attempting"}

\* C5 witness: a user-errors response ended a call on its 2nd attempt, after a
\* 401 on the 1st attempt was retried.
C5_Witness ==
    /\ Len(tlog) = 2
    /\ AuthorizationFailure(1)
    /\ GraphQLFailure(2)
    /\ tlog[2].outcome.err = "ShopifyUserError"
    /\ EndedCall(2)

\* C6: an attempt whose HTTP response has status 429 fails with
\* ShopifyRateLimitError, and that is the error kind the caller sees if the
\* rate limiting persists through all attempts.
C6_Status429IsRateLimitError ==
    /\ \A i \in 1..Len(tlog) :
         (tlog[i].resp.net = "ok" /\ tlog[i].resp.status = 429) =>
             tlog[i].outcome = Raise("ShopifyRateLimitError")
    /\ ( /\ tpc = "raised"
         /\ \A i \in 1..Len(tlog) : tlog[i].resp.status = 429 )
       => tresult.err = "ShopifyRateLimitError"

----------------------------------------------------------------------------
(* Claims about the upsert orchestrator, checked under SpecBatch *)

\* The handles of the first n input records, in input order
InputHandles(n) == [i \in 1..n |-> metaobjects[i].handle]

\* The upsert of a record failed with a network/transport failure that
\* persisted through all the retries of its transport call.
TransportFailure(o) ==
    /\ o.kind = "raise"
    /\ \/ IsInstance(o.err, "RequestException")
       \/ o.err = "RetryError" /\ IsInstance(o.cause, "RequestException")

\* C2, for the failure it names: when the upsert of a record fails with a
\* network/transport failure that persists through all retries, the failure
\* does not propagate out of batch_upsert_metaobjects: the record is counted
\* as failed, every later record is still attempted, and the call returns a
\* tally with upserted + failed equal to the number of input records.
C2_NoRecordFailurePropagates ==
    /\ \A i \in 1..Len(outcomes) :
         TransportFailure(outcomes[i]) =>
             /\ bpc # "raised"
             /\ stats.upserted + stats.failed = Len(outcomes)
    /\ (bpc = "returned" /\ \E i \in 1..Len(outcomes) :
                               TransportFailure(outcomes[i])) =>
         /\ attempted = InputHandles(Len(metaobjects))
         /\ bresult.kind = "return"
         /\ bresult.data.upserted + bresult.data.failed = Len(metaobjects)

\* The records processed so far either failed with ShopifyUserError or
\* succeeded (_upsert_metaobject returned the record).
OnlyUserErrorsOrSuccess ==
    \A i \in 1..Len(outcomes) :
        \/ outcomes[i] = Raise("ShopifyUserError")
        \/ outcomes[i] = Return("Metaobject")

UserErrorCount ==
    Cardinality({i \in 1..Len(outcomes) : outcomes[i].kind = "raise"})

\* C3: batch_upsert_metaobjects over K records, of which M fail with
\* ShopifyUserError and the others succeed, attempts all K records in input
\* order and returns exactly {upserted: K-M, failed: M}, for any batch size.
C3_BusinessRuleFailuresTallied ==
    OnlyUserErrorsOrSuccess =>
        /\ bpc # "raised"
        /\ attempted = InputHandles(Len(attempted))
        /\ bpc = "returned" =>
             /\ attempted = InputHandles(Len(metaobjects))
             /\ Len(outcomes) = Len(metaobjects)
             /\ bresult = Return([upserted |-> Len(metaobjects) - UserErrorCount,
                                  failed |-> UserErrorCount])

\* C3 witness: 3 records in batches of 2, the 1st fails with ShopifyUserError,
\* the 2nd and the 3rd (in the next batch) are upserted.
C3_Witness ==
    /\ bpc = "returned"
    /\ Len(metaobjects) = 3
    /\ batch_size = 2
    /\ outcomes = <<Raise("ShopifyUserError"), Return("Metaobject"),
                    Return("Metaobject")>>
    /\ bresult = Return([upserted |-> 2, failed |-> 1])

----------------------------------------------------------------------------
(* Claims about the pagination walker, checked under SpecFetch *)

\* The items of the first n pages received, page after page
RECURSIVE ItemsOfPages(_)
ItemsOfPages(n) ==
    IF n = 0 THEN << >>
    ELSE ItemsOfPages(n - 1) \o [i \in 1..Len(pages[n].edges) |->
                                    pages[n].edges[i].node]

RECURSIVE TotalItems(_)
TotalItems(n) ==
    IF n = 0 THEN 0 ELSE TotalItems(n - 1) + Len(pages[n].edges)

\* The server served its collection as consistent pages: every page with
\* has_next carries a cursor.
ConsistentPages ==
    \A i \in 1..Len(pages) :
        pages[i].hasNextPage => ~NotCursor(pages[i].endCursor)

\* C7: fetch_all_metaobjects returns exactly the concatenation of the items of
\* every page it received, in request order and in each page's own order,
\* nothing reordered, dropped or deduplicated; when the server serves `total`
\* items as N consistent pages, the walk ends at the page without a next page
\* and the result has exactly `total` items.
C7_ResultIsConcatenationOfPages ==
    /\ all_metaobjects = ItemsOfPages(Len(pages))
    /\ fpc = "returned" =>
         /\ fresult = Return(ItemsOfPages(Len(pages)))
         /\ ConsistentPages =>
              /\ ~pages[Len(pages)].hasNextPage
              /\ \A i \in 1..(Len(pages) - 1) : pages[i].hasNextPage
              /\ Len(fresult.data) = TotalItems(Len(pages))

\* C7 witness: three consistent pages returned, with a node repeated across
\* pages and within a page, not in sorted order.
C7_Witness ==
    /\ fpc = "returned"
    /\ Len(pages) = 3
    /\ ConsistentPages
    /\ fresult.data = <<2, 1, 1, 3, 3>>

\* Page i reports has_next = true with an absent (null or empty) end_cursor.
InconsistentPage(i) ==
    pages[i].hasNextPage /\ NotCursor(pages[i].endCursor)

\* C8: if a page reports has_next = true with an absent end_cursor,
\* fetch_all_metaobjects issues no further page request and returns, without
\* raising, the items of all earlier pages followed by that page's own items.
C8_MissingCursorEndsWalk ==
    \A i \in 1..Len(pages) :
        InconsistentPage(i) =>
            /\ Len(pages) = i
            /\ Len(requests_sent) = i
            /\ fpc = "returned"
            /\ fresult = Return(ItemsOfPages(i - 1) \o Nodes(pages[i].edges))

\* C8 witness: the 2nd page has has_next = true with an empty cursor and the
\* walk returned the items of both pages.
C8_Witness ==
    /\ fpc = "returned"
    /\ Len(pages) = 2
    /\ pages[2].hasNextPage
    /\ pages[2].endCursor = ""
    /\ fresult.data = <<2, 1, 1>>

----------------------------------------------------------------------------
(* Claims about the validator, checked under SpecValidate *)

Range(q) == {q[i] : i \in DOMAIN q}

\* C9: for every required field definition whose key is absent from the
\* record's fields, validate_metaobject_definition returns a list containing
\* "Missing required field: <key>" for that key, and the list contains no
\* type or constraint violation for an absent field.
C9_MissingRequiredFieldReported ==
    vpc = "done" =>
        \A i \in 1..Len(v_definition) :
            LET field == v_definition[i]
            IN (field.required /\ field.key \notin DOMAIN v_fields) =>
                 /\ vresult.kind = "return"
                 /\ ("Missing required field: " \o field.key)
                        \in Range(vresult.data)
                 /\ \A j \in 1..Len(vresult.data) :
                      /\ \A t \in Types, v \in Values :
                           vresult.data[j] # TypeMessage(field.key, t, v)
                      /\ \A k \in 1..Len(field.validations) :
                           vresult.data[j] #
                               ValidationMessage(field.key,
                                                 field.validations[k])

\* What the validated record is to satisfy. A value satisfies a text type when
\* it is a str, the integer type when it is an int, and any type without a
\* defined expectation.
SatisfiesType(v, t) ==
    CASE t = "single_line_text_field" -> v.type = "str"
      [] t = "number_integer" -> v.type = "int"
      [] OTHER -> TRUE

\* A value satisfies min/max when it is a number, or the text of one, within
\* the bound; a pattern when its text matches; `in` when it is one of the
\* texts listed; any other rule always.
IsNumber(v) ==
    \/ v.type \in {"int", "float"}
    \/ v.type = "str" /\ v.s \in {"1", "3", "5", "1.5"}
NumberOf(v) ==
    IF v.type = "str"
    THEN CASE v.s = "1" -> 10 [] v.s = "3" -> 30 [] v.s = "5" -> 50
           [] v.s = "1.5" -> 15
    ELSE v.n
SatisfiesRule(v, rule) ==
    CASE rule.name = "min" ->
             IsNumber(v) /\ NumberOf(v) >= NumberOf(StrV(rule.value))
      [] rule.name = "max" ->
             IsNumber(v) /\ NumberOf(v) <= NumberOf(StrV(rule.value))
      [] rule.name = "pattern" ->
             rule.value = "^[A-Z]{2}$" /\ PyStr(v) = "US"
      [] rule.name = "in" ->
             v.type = "str" /\ v.s \in Split(rule.value)
      [] OTHER -> TRUE

RecordIsValid ==
    \A i \in 1..Len(v_definition) :
        LET field == v_definition[i]
        IN IF field.key \in DOMAIN v_fields
           THEN /\ SatisfiesType(v_fields[field.key], field.type)
                /\ \A k \in 1..Len(field.validations) :
                     SatisfiesRule(v_fields[field.key], field.validations[k])
           ELSE ~field.required

\* The descriptor of the concrete scenario: one required text field `code`
\* with pattern ^[A-Z]{2}$.
CodeDefinition ==
    <<[key |-> "code", type |-> "text", required |-> TRUE,
       validations |-> <<[name |-> "pattern", value |-> "^[A-Z]{2}$"]>>]>>

C11_ValidatorNeverRaises ==
    vpc = "done" => vresult.kind = "return"

----------------------------------------------------------------------------
(* Claims about the validator's checks of one field, checked under
   SpecValidateField *)

NumericTypes ==
    {"number_integer", "number_decimal", "rating", "dimension", "volume",
     "weight"}
TextTypes ==
    {"single_line_text_field", "multi_line_text_field", "date", "date_time",
     "color"}

\* An integer value is a Python int, which a bool is; a decimal is a float.
IsInteger(v) == v.type \in {"int", "bool"}
IsDecimal(v) == v.type = "float"

\* The values C12 says the type check accepts for the declared type t
AcceptedAsStated(v, t) ==
    CASE t \in NumericTypes -> IsInteger(v) \/ IsDecimal(v)
      [] t = "boolean" -> v.type = "bool"
      [] t = "json" -> v.type \in {"dict", "list"}
      [] t \in TextTypes -> v.type = "str"
      [] OTHER -> TRUE

\* The same, but number_integer accepts an integer only.
AcceptedAsAmended(v, t) ==
    IF t = "number_integer" THEN IsInteger(v) ELSE AcceptedAsStated(v, t)

\* Every type violation there can be for the field `key`
TypeMessages(key) ==
    { TypeMessage(key, t, v) : t \in DeclaredTypes, v \in TypedValues }

\* The list q of violations has no type violation for the field (accepted), or
\* exactly one, naming the field, the expected type and the runtime type.
TypeViolationIn(q, field, v, accepted) ==
    LET idx == { j \in 1..Len(q) : q[j] \in TypeMessages(field.key) }
    IN IF accepted THEN idx = {}
       ELSE /\ Cardinality(idx) = 1
            /\ \A j \in idx : q[j] = TypeMessage(field.key, field.type, v)

\* C12 as stated: for a present field the type check accepts, for a numeric
\* declared type, an integer or a decimal value; for boolean only a boolean;
\* for json only a mapping or a sequence; for every other known type only a
\* text; for a type with no defined expectation every value. A rejected value
\* yields one violation naming the field, the expected and the actual type.
C12_TypeCheckAsStated ==
    vpc = "done" =>
        \A i \in 1..Len(v_definition) :
            LET field == v_definition[i]
            IN field.key \in DOMAIN v_fields =>
                 LET v == v_fields[field.key]
                     ok == AcceptedAsStated(v, field.type)
                 IN /\ TypeViolationIn(v_errors, field, v, ok)
                    /\ vresult.kind = "return" =>
                         TypeViolationIn(vresult.data, field, v, ok)

\* C12 as amended: as stated, except that the declared type number_integer
\* accepts an integer only and rejects a decimal. The violation of a rejected
\* value is appended once to the list of violations, and is in the list the
\* validator returns.
C12_TypeCheckIntegerRejectsDecimal ==
    vpc = "done" =>
        \A i \in 1..Len(v_definition) :
            LET field == v_definition[i]
            IN field.key \in DOMAIN v_fields =>
                 LET v == v_fields[field.key]
                     ok == AcceptedAsAmended(v, field.type)
                 IN /\ TypeViolationIn(v_errors, field, v, ok)
                    /\ vresult.kind = "return" =>
                         TypeViolationIn(vresult.data, field, v, ok)

\* C12 witness: the decimal 1.5 in a number_integer field was rejected with
\* the one violation that names field, expected type and runtime type.
C12_Witness ==
    /\ vpc = "done"
    /\ v_definition[1].type = "number_integer"
    /\ v_fields["code"] = FloatV(15)
    /\ vresult = Return(
           <<"Invalid type for field code: expected number_integer, got float">>)

\* C13: for a present field, an `in` validation is satisfied exactly when the
\* text of the field's value, whatever its runtime type, is one of the values
\* of the rule's comma-separated list (the integer 1 is in "1,5"); a
\* validation whose name is not min, max, pattern or in never adds a
\* violation.
C13_InIsMembershipOfList ==
    (vpc = "done" /\ vresult.kind = "return") =>
        \A i \in 1..Len(v_definition) :
            LET field == v_definition[i]
            IN field.key \in DOMAIN v_fields =>
                 \A k \in 1..Len(field.validations) :
                     LET rule == field.validations[k]
                         reported == ValidationMessage(field.key, rule)
                                         \in Range(vresult.data)
                     IN /\ rule.name = "in" =>
                             (reported <=>
                                 PyStr(v_fields[field.key])
                                     \notin Split(rule.value))
                        /\ rule.name \notin {"min", "max", "pattern", "in"} =>
                             ~reported

----------------------------------------------------------------------------
(* Claims about the record model, checked under SpecRecord *)

\* The instance the n-th round trip gave
AfterRoundTrip(n) ==
    IF n < Len(round_trips) THEN round_trips[n + 1] ELSE record

\* C14: for a record R with non-null type and handle, from_shopify_data of the
\* wire object {type, handle, fields: R.to_shopify_fields()} has the same
\* type, the same handle, the same set of field keys, and each field value
\* equal to the text of R's value; a second round trip changes nothing.
C14_RoundTripKeepsIdentityAndText ==
    \A n \in 1..Len(round_trips) :
        LET R == round_trips[n]
            after == AfterRoundTrip(n)
        IN (R.type # None /\ R.handle # None) =>
             /\ after.type = R.type
             /\ after.handle = R.handle
             /\ DictKeys(after.fields) = DictKeys(R.fields)
             /\ \A k \in DictKeys(R.fields) :
                  DictGet(after.fields, k) = StrV(PyStr(DictGet(R.fields, k)))
             /\ n >= 2 => after = R

\* C14 witness: a record with an integer and a text field was round-tripped
\* twice; its fields are the texts "1" and "US".
C14_Witness ==
    /\ Len(round_trips) = 2
    /\ round_trips[1].fields =
           <<FieldEntry("qty", IntV(1)), FieldEntry("code", StrV("US"))>>
    /\ record.fields =
           <<FieldEntry("qty", StrV("1")), FieldEntry("code", StrV("US"))>>
    /\ record.handle = "h1"

\* C15: from_shopify_data fails with a malformed-record error, and returns no
\* record, whenever the payload has no `type` or no `handle`.
C15_AbsentIdentityIsMalformed ==
    ( /\ rpc \in {"hydrated", "failed"}
      /\ payload.type = None \/ payload.handle = None )
    => /\ rpc = "failed"
       /\ hresult.kind = "raise"

\* The payload carries a metafield with key k in namespace ns (a metafield
\* without namespace is in "custom"), and the last such metafield.
PayloadHas(k, ns) ==
    \E i \in DOMAIN payload.metafields :
        payload.metafields[i].key = k
        /\ NamespaceOf(payload.metafields[i]) = ns
LastInPayload(k, ns) ==
    LET I == { i \in DOMAIN payload.metafields :
                 payload.metafields[i].key = k
                 /\ NamespaceOf(payload.metafields[i]) = ns }
    IN payload.metafields[CHOOSE i \in I : \A j \in I : j <= i]

\* The shapes in which class c reads the metafields of a payload
ReadShapes(c) ==
    IF c = "loader" THEN {"edges_node", "edges_flat"} ELSE {"list"}

\* C16: get_metafield(k, ns) returns the metafield stored under namespace ns
\* and key k, both when set_metafield(k, v, namespace=ns) stored it and when
\* from_shopify_data hydrated it from a payload with a metafield of namespace
\* ns (default "custom") and key k; a metafield of another namespace or key is
\* never returned for (k, ns) and is left unchanged by set_metafield.
C16_MetafieldFoundByNamespaceAndKey ==
    /\ rpc = "set" =>
         LET a == sets[Len(sets)]
         IN /\ get_metafield(mcls, record, a.key, a.namespace) = <<a>>
            /\ \A k \in MetafieldKeys, ns \in MetafieldNamespaces :
                 (k # a.key \/ ns # a.namespace) =>
                     get_metafield(mcls, record, k, ns)
                         = get_metafield(mcls, before, k, ns)
    /\ (rpc \in {"hydrated", "failed"} /\ payload.shape \in ReadShapes(mcls)) =>
         \A k \in MetafieldKeys, ns \in MetafieldNamespaces :
             IF PayloadHas(k, ns)
             THEN /\ rpc = "hydrated"
                  /\ get_metafield(mcls, record, k, ns)
                         = <<LastInPayload(k, ns)>>
             ELSE rpc = "hydrated" =>
                      get_metafield(mcls, record, k, ns) = << >>

\* C17: _upsert_metaobject performs exactly one transport call, the upsert
\* mutation, and no lookup before it; its variables carry the record's type
\* and handle and one {key, value} entry per key of the record's fields, in
\* the fields' order, with the value as text; when the server answers with a
\* metaobject and no user errors it returns the record built from the
\* server's response, with the server-assigned id.
C17_SingleUpsertCallReturnsServerRecord ==
    rpc = "upserted" =>
        /\ Len(calls) = 1
        /\ calls[1].query = "metaobjectUpsert"
        /\ calls[1].variables.handle =
               [type |-> record.type, handle |-> record.handle]
        /\ LET sent == calls[1].variables.metaobject.fields
           IN /\ Len(sent) = Len(record.fields)
              /\ \A i \in DOMAIN sent :
                   /\ sent[i].key = record.fields[i].key
                   /\ sent[i].value = StrV(PyStr(record.fields[i].value))
        /\ LET t == calls[1].outcome
           IN (t.kind = "return" /\ t.data.metaobject # << >>) =>
                LET server == t.data.metaobject[1]
                IN /\ uresult.kind = "return"
                   /\ Len(uresult.data) = 1
                   /\ uresult.data[1].id = server.id
                   /\ uresult.data[1].type = server.type
                   /\ uresult.data[1].handle = server.handle
                   /\ uresult.data[1].fields = DictOf(server.fields)

----------------------------------------------------------------------------
(* Claims about the tabular loader, checked under SpecCsv *)

\* The source was read and its first column is the handle column.
FirstColumnIsHandle ==
    /\ csv.read = "ok"
    /\ csv.columns # << >>
    /\ csv.columns[1] = "handle"

\* All columns of row i but the first, as text, in column order
RemainingColumnsAsText(i) ==
    [j \in 1..(Len(csv.columns) - 1) |->
        FieldEntry(csv.columns[j + 1],
                   StrV(PyStr(Cell(i, csv.columns[j + 1]))))]

\* C18, for a source whose first column is the handle column: process_csv
\* builds for each row, in source order, one record whose handle is the value
\* of the row's first column and whose fields are all remaining columns as
\* text; it attempts the upsert of every row whatever happened to earlier
\* rows and returns a tally with upserted + failed equal to the number of
\* rows; a source that was read never makes it fail.
C18_EveryRowAttemptedAndTallied ==
    (cpc # "idle" /\ FirstColumnIsHandle) =>
        /\ \A i \in 1..Len(built) :
             /\ built[i].handle = Cell(i, csv.columns[1])
             /\ built[i].fields = RemainingColumnsAsText(i)
        /\ cpc # "raised"
        /\ cpc = "returned" =>
             /\ Len(built) = csv.rows
             /\ cresult.kind = "return"
             /\ cresult.data.upserted + cresult.data.failed = csv.rows

----------------------------------------------------------------------------
(* Claims about the schema descriptor, checked under SpecDescribe *)

\* The list request was answered with a listing of type definitions.
Listed ==
    /\ dpc \in {"defining", "returned", "raised"}
    /\ d_listing.net = "ok"
    /\ d_listing.status = 200
    /\ ~d_listing.errors

\* A listed type definition has a type equal to the requested name.
Matches ==
    \E i \in DOMAIN d_listing.nodes :
        d_listing.nodes[i].type = metaobject_type

NotFound == dresult = Raise("ValueError")

\* The definition request was answered, without errors, with a null
\* definition: the listed type is gone.
NullDefinition ==
    /\ Len(d_requests) = 2
    /\ d_definition.net = "ok"
    /\ d_definition.status = 200
    /\ ~d_definition.errors
    /\ d_definition.definition = << >>

\* C19: describe_metaobject_type fails with a not-found error exactly when no
\* listed type definition has a type equal to the requested name by exact
\* string match (a listed type whose definition the server then answers as
\* null counts as not found too), and without a match the definition request
\* is never issued; when a match exists it issues exactly the two read
\* requests, list first and definition second.
C19_NotFoundExactlyWhenNoMatch ==
    (Listed /\ dpc \in {"returned", "raised"}) =>
        /\ NotFound <=> (~Matches \/ NullDefinition)
        /\ ~Matches =>
             /\ Len(d_requests) = 1
             /\ d_requests[1].query = "metaobjectDefinitions"
        /\ Matches =>
             /\ Len(d_requests) = 2
             /\ d_requests[1].query = "metaobjectDefinitions"
             /\ d_requests[2].query = "metaobjectDefinition"

\* The remote schema resolved the requested type with a field definition set.
Resolved ==
    /\ dpc \in {"returned", "raised"}
    /\ Listed
    /\ Matches
    /\ d_definition.net = "ok"
    /\ d_definition.status = 200
    /\ ~d_definition.errors
    /\ d_definition.definition # << >>

\* C20: for a type the remote schema resolves with a field definition set F,
\* describe_metaobject_type returns a summary with total_fields = |F| =
\* required_fields + optional_fields, where every count of field_types is the
\* number of fields of that declared type, every declared type is counted,
\* and the required and optional partitions together hold every field once.
C20_SummaryCountsEveryField ==
    Resolved =>
        LET F == d_definition.definition[1].fieldDefinitions
        IN /\ dresult.kind = "return"
           /\ LET summary == dresult.data.field_summary
                  required == dresult.data.fields.required
                  optional == dresult.data.fields.optional
              IN /\ summary.total_fields = Len(F)
                 /\ summary.required_fields + summary.optional_fields = Len(F)
                 /\ summary.required_fields = Len(required)
                 /\ summary.optional_fields = Len(optional)
                 /\ \A i \in DOMAIN F :
                      /\ DictHas(summary.field_types, F[i].type)
                      /\ DictGet(summary.field_types, F[i].type) =
                             Cardinality({ j \in DOMAIN F :
                                             F[j].type = F[i].type })
                 /\ \A i \in DOMAIN F :
                      Cardinality({ j \in DOMAIN required :
                                      required[j].key = F[i].key })
                      + Cardinality({ j \in DOMAIN optional :
                                        optional[j].key = F[i].key }) = 1

----------------------------------------------------------------------------
(* Claims about the projections, checked under SpecProject *)

\* The value a fetched node has for the key field k, as a one-element
\* sequence; << >> when the node lacks the field. "handle" and "id" are
\* members of every node.
KeyFieldOf(node, k) ==
    IF k = "handle" THEN <<node.handle>>
    ELSE IF k = "id" THEN <<node.id>>
    ELSE IF DictHas(DictOf(node.fields), k)
    THEN <<DictGet(DictOf(node.fields), k)>>
    ELSE << >>

\* fetch_all_metaobjects returned and the projection op is over.
ProjectionOver(op) ==
    /\ ppc \in {"returned", "raised"}
    /\ p_op = op
    /\ fresult.kind = "return"

SomeRecordLacksKey ==
    \E i \in DOMAIN fresult.data :
        KeyFieldOf(ServerNode(fresult.data[i]), key_field) = << >>

\* C21: fetch_metaobjects_as_dict fails with the key-field-missing error
\* exactly when some fetched record lacks the key field (a key field present
\* with an empty value is no failure), and otherwise returns a mapping that
\* has an entry under every fetched record's value of the key field.
C21_MappingOrKeyFieldMissing ==
    ProjectionOver("as_dict") =>
        /\ (presult.kind = "raise" /\ presult.err = "ValueError")
               <=> SomeRecordLacksKey
        /\ presult.kind = "return" =>
               \A i \in DOMAIN fresult.data :
                   DictHas(presult.data,
                           KeyFieldOf(ServerNode(fresult.data[i]), key_field)[1])

\* The field keys of the fetched records, and the number of fetched records
\* that contain the key k.
FetchedFieldKeys ==
    UNION { DictKeys(ServerNode(fresult.data[i]).fields) :
              i \in DOMAIN fresult.data }
CountWithKey(k) ==
    Cardinality({ i \in DOMAIN fresult.data :
                    DictHas(ServerNode(fresult.data[i]).fields, k) })

\* C22: get_metaobject_stats returns {total: 0, fields: {}, metafields: {}}
\* when fetch_all_metaobjects returns no record; for a non-empty result it
\* returns, without failing, total = the number of fetched records and for
\* each field key the number of fetched records that contain the key.
C22_StatsCountEveryField ==
    ProjectionOver("stats") =>
        /\ presult.kind = "return"
        /\ IF fresult.data = << >>
           THEN presult.data = [total |-> 0, fields |-> << >>,
                                metafields |-> << >>]
           ELSE /\ presult.data.total = Len(fresult.data)
                /\ DictKeys(presult.data.fields) = FetchedFieldKeys
                /\ \A k \in FetchedFieldKeys :
                       DictGet(presult.data.fields, k).count = CountWithKey(k)

----------------------------------------------------------------------------
(* Claims about the cache, checked under SpecCache *)

\* The last _get_from_cache call read a key that _save_to_cache had written
\* under the loader's cache_dir.
ReadOfWrittenKey ==
    /\ cache_dir # None
    /\ cget # << >>
    /\ cget[1].written # << >>

\* C23: an entry written with time-to-live t at time T is returned by
\* _get_from_cache for the same key at every time before T + t and is a
\* miss (None) at every time after T + t.
C23_EntryServedUntilExpiry ==
    ReadOfWrittenKey =>
        LET w == cget[1].written[1]
            g == cget[1]
        IN /\ g.at < w.at + w.ttl => g.result = <<w.data>>
           /\ g.at > w.at + w.ttl => g.result = << >>

----------------------------------------------------------------------------
(* Claims about the transport's waits and error taxonomy, checked under Spec *)

\* C24: within one transport call, the wait before the 2nd attempt and the
\* wait before the 3rd attempt are each at least 4 and at most 10 time units,
\* and the wait before the 3rd attempt is not shorter than the one before
\* the 2nd. waits[n] is the sleep made after attempt n.
C24_WaitsWithinFloorAndCeiling ==
    /\ Len(waits) <= 2
    /\ tpc = "attempting" => Len(waits) = Len(tlog)
    /\ \A n \in DOMAIN waits : waits[n] >= 4 /\ waits[n] <= 10
    /\ Len(waits) = 2 => waits[2] >= waits[1]

\* C24 witness: a call that slept before its 2nd and before its 3rd attempt,
\* and made the 3rd.
C24_Witness ==
    /\ Len(waits) = 2
    /\ Len(tlog) = 3
    /\ tpc \in {"returned", "raised"}

\* Attempt i got a response whose HTTP status is successful.
SuccessfulStatus(i) ==
    /\ tlog[i].resp.net = "ok"
    /\ tlog[i].resp.status >= 200
    /\ tlog[i].resp.status < 300

\* C25: for an attempt whose HTTP status is successful, the transport raises
\* ShopifyAPIError exactly when the response's `errors` array is non-empty;
\* otherwise it raises ShopifyUserError exactly when the mutation's
\* userErrors list is non-empty; otherwise it returns the response's data. A
\* response carrying an empty `errors` array returns its data.
C25_ErrorTaxonomyOfSuccessfulStatus ==
    \A i \in DOMAIN tlog :
        SuccessfulStatus(i) =>
            LET r == tlog[i].resp
                o == tlog[i].outcome
            IN IF r.errors = "nonempty" THEN o = Raise("ShopifyAPIError")
               ELSE IF r.data.userErrors = "nonempty"
               THEN o = Raise("ShopifyUserError")
               ELSE o = Return(r.data)

----------------------------------------------------------------------------
(* Claims about the walker's requests, checked under SpecFetch *)

\* The server answered request i with a page that has a next page and a
\* cursor.
PageWithNext(i) ==
    /\ responses[i].net = "ok"
    /\ responses[i].status = 200
    /\ ~responses[i].errors
    /\ responses[i].hasNextPage
    /\ ~NotCursor(responses[i].endCursor)

\* C26: the first page request carries a null cursor; every later request
\* carries exactly the end_cursor of the immediately preceding page; a next
\* request is issued only if the preceding page reported has_next = true
\* with a cursor; no request is issued after a page with has_next = false.
C26_CursorThreading ==
    /\ Len(responses) = Len(requests_sent)
    /\ requests_sent # << >> => requests_sent[1] = None
    /\ \A i \in 2..Len(requests_sent) :
         /\ PageWithNext(i - 1)
         /\ requests_sent[i] = responses[i - 1].endCursor
    /\ \A i \in 1..Len(pages) :
         ~pages[i].hasNextPage => (Len(requests_sent) = i /\ fpc = "returned")

\* C26 witness: three requests, the 2nd and 3rd carrying the cursors of the
\* 1st and 2nd page, and none after the 3rd page, which has no next page.
C26_Witness ==
    /\ fpc = "returned"
    /\ requests_sent = <<None, "c2", "c1">>
    /\ responses[1].endCursor = "c2"
    /\ responses[2].endCursor = "c1"
    /\ ~responses[3].hasNextPage

\* The responses requests.post gave the page request that failed: those not
\* followed by a page. Every page request of the walk that got a page got it
\* from its one response.
PostsOfFailedRequest == Len(responses) - Len(pages)

\* The last response is a transient failure: no response at all (network
\* failure) or the rate-limit status.
TransientFailure(r) == r.net = "fail" \/ (r.net = "ok" /\ r.status = 429)

\* C27: every page request of fetch_all_metaobjects goes through the
\* transport: a page request that fails with a transient rate-limit or
\* network failure is attempted 3 times in all before fetch_all fails.
C27_PageRequestsAreRetried ==
    (fpc = "raised" /\ TransientFailure(responses[Len(responses)])) =>
        PostsOfFailedRequest = MaxAttempts

----------------------------------------------------------------------------
(* Claims about the order of the validator's list, checked under
   SpecValidate *)

\* The concatenation of the sequences of q, in order
RECURSIVE ConcatAll(_)
ConcatAll(q) == IF q = << >> THEN << >> ELSE Head(q) \o ConcatAll(Tail(q))

\* The violations of each kind that the record has, per field of the
\* descriptor in the descriptor's order. A validation that cannot be
\* evaluated on the value is not satisfied.
PresenceViolations ==
    ConcatAll([i \in 1..Len(v_definition) |->
        IF v_definition[i].required /\ v_definition[i].key \notin DOMAIN v_fields
        THEN <<MissingMessage(v_definition[i].key)>> ELSE << >>])

TypeViolations ==
    ConcatAll([i \in 1..Len(v_definition) |->
        LET field == v_definition[i]
        IN IF field.key \in DOMAIN v_fields
              /\ ~_validate_field_type(v_fields[field.key], field.type)
           THEN <<TypeMessage(field.key, field.type, v_fields[field.key])>>
           ELSE << >>])

ConstraintViolationsOf(field) ==
    ConcatAll([k \in 1..Len(field.validations) |->
        LET ok == _validate_field_value(v_fields[field.key],
                                        field.validations[k])
        IN IF ok.kind = "return" /\ ok.data THEN << >>
           ELSE <<ValidationMessage(field.key, field.validations[k])>>])

ConstraintViolations ==
    ConcatAll([i \in 1..Len(v_definition) |->
        IF v_definition[i].key \in DOMAIN v_fields
        THEN ConstraintViolationsOf(v_definition[i]) ELSE << >>])

\* C28: the list validate_metaobject_definition returns holds all presence
\* violations, then all type violations, then all constraint violations,
\* each group in the descriptor's field order and a field's constraint
\* violations in the order of its validations; every violation of every
\* field is reported: an earlier violation never suppresses a later one.
C28_AllViolationsInOrder ==
    vpc = "done" =>
        /\ vresult.kind = "return"
        /\ vresult.data =
               PresenceViolations \o TypeViolations \o ConstraintViolations

----------------------------------------------------------------------------
(* Claims about a failed page of the walk, checked under SpecFetch *)

\* Request i was answered with a GraphQL `errors` response.
ErrorsResponse(i) ==
    /\ responses[i].net = "ok"
    /\ responses[i].status = 200
    /\ responses[i].errors

\* C29: when a page request is answered with a GraphQL `errors` response,
\* fetch_all_metaobjects raises no error and issues no further request: it
\* returns only the items of the pages received before it, as a complete
\* fetch ending at that request would.
C29_ErrorsPageEndsWalkSilently ==
    \A i \in DOMAIN responses :
        ErrorsResponse(i) =>
            /\ Len(requests_sent) = i
            /\ fpc = "returned"
            /\ fresult = Return(ItemsOfPages(i - 1))
            /\ pages[i] = [edges |-> << >>, hasNextPage |-> FALSE,
                           endCursor |-> None]

\* C29 witness: two pages of items, then an `errors` response to the 3rd
\* request; the walk returned the items of the two pages.
C29_Witness ==
    /\ Len(responses) = 3
    /\ ErrorsResponse(3)
    /\ fpc = "returned"
    /\ fresult.data = <<2, 1, 1>>

----------------------------------------------------------------------------
(* Claims about the walk's termination, checked under SpecFetchLive *)

\* C30: every call of fetch_all_metaobjects eventually returns or raises
\* after finitely many page requests, for every sequence of page responses
\* the server may give, pages that keep reporting has_next = true with a
\* non-empty cursor or that repeat an earlier cursor included.
C30_FetchAllTerminates ==
    (fpc = "loop") ~> (fpc \in {"returned", "raised"})

====
